---- MODULE Spec2Model ----
(***************************************************************************)
(* Model of the RFID access-control device (dmigwi/rfid-based-auth):       *)
(* the reader firmware (rfid-plus-display: main loop, interrupt service    *)
(* routine, Transmitter read / network / write cycle), the serial link to  *)
(* the WiFi bridge, and the bridge's boot handshake and request relay.     *)
(*                                                                         *)
(* The MFRC522 library, the tag and the HTTP backend are not part of the   *)
(* repository's firmware: their results are inputs chosen by the           *)
(* environment (tag operations succeed only when a tag is in the field and *)
(* the key fits; any operation may additionally fail on an RF fault).      *)
(***************************************************************************)
EXTENDS Integers, Sequences, FiniteSets, TLC

(***************************************************************************)
(* Bounds of the model (not program constants).                            *)
(***************************************************************************)
\* RF faults (an operation failing although tag and key are right) per cycle.
MaxFaults == 1
\* Bytes the device -> bridge direction of the serial link can hold; bytes
\* arriving at a full receive buffer are dropped, as the UART drivers do.
TxCap == 70
\* Bytes the bridge -> device direction of the serial link can hold.
RxCap == 50
\* Handshake bytes the bridge's receive buffer holds while the bridge is not
\* reading; further ACK bytes are lost.
AckCap == 7
\* Detections for which the tag answers the select of handleDetectedCard.
MaxCycles == 2
\* Timed reads that return with only a part of what the sender wrote.
MaxSplits == 1
\* Saturation value of the history counters (CountCap means "or more").
CountCap == 2
MaxRows == 4

(***************************************************************************)
(* Program constants.                                                      *)
(***************************************************************************)
blockSize == 16
TrustKeySize == 48
SecretKeyAuthDataSize == 35
TrustKeyAuthDataSize == 67
MaxReqSize == 72
ACK_SIGNAL_SIZE == 4
READY_SIGNAL_SIZE == 6
MF_KEY_SIZE == 6
maxBlockNo == 63
sectorBlocks == 4
keysCount == 9
UidBufSize == 10
FirstBlock2Addr == 6
DeviceIdEchoOffset == 40

\* "ACK" and "READY" without the terminating NUL.
ACK_SIGNAL == <<65, 67, 75>>
READY_SIGNAL == <<82, 69, 65, 68, 89>>

DEVICE_ID == <<239, 18, 52, 86, 171, 205, 239, 18>>

\* Settings::KeyA (index 0) and Settings::defaultPICCKeyAs[0..8] (index 1..9).
KeyA == <<218, 145, 231, 164, 59, 66>>

defaultPICCKeyAs ==
    << <<255, 255, 255, 255, 255, 255>>,
       <<211, 247, 211, 247, 211, 247>>,
       <<160, 161, 162, 163, 164, 165>>,
       <<176, 177, 178, 179, 180, 181>>,
       <<77, 58, 153, 195, 81, 221>>,
       <<26, 152, 44, 126, 69, 154>>,
       <<170, 187, 204, 221, 238, 255>>,
       <<0, 0, 0, 0, 0, 0>>,
       <<171, 205, 239, 18, 52, 86>> >>

AccessBits == <<75, 68, 187>>

STATUS_OK == "OK"
STATUS_ERROR == "ERROR"

MachineState == {"BootUp", "Loading", "StandBy", "ReadTag", "Network", "WriteTag", "Unknown"}

(***************************************************************************)
(* Byte-sequence helpers.                                                  *)
(***************************************************************************)
Min(a, b) == IF a < b THEN a ELSE b

Fill(n, v) == [i \in 1..n |-> v]

Take(s, n) == SubSeq(s, 1, Min(n, Len(s)))

Drop(s, n) == SubSeq(s, Min(n, Len(s)) + 1, Len(s))

\* memcpy(dst, src, n): the first n bytes of dst are replaced by those of src.
MemCpy(dst, src, n) == [i \in 1..Len(dst) |-> IF i <= n THEN src[i] ELSE dst[i]]

\* memcmp(a, b, n) == 0
MemEq(a, b, n) == \A i \in 1..n : a[i] = b[i]

\* Bytes appended to a receive buffer of capacity cap: the overflow is lost.
Enqueue(q, bytes, cap) == Take(q \o bytes, cap)

RECURSIVE BitXor(_, _)
BitXor(a, b) ==
    IF a = 0 THEN b
    ELSE IF b = 0 THEN a
    ELSE ((a + b) % 2) + 2 * BitXor(a \div 2, b \div 2)

\* Serial.write(const char*): the bytes before the first NUL.
RECURSIVE CStr(_)
CStr(s) == IF s = <<>> \/ Head(s) = 0 THEN <<>> ELSE <<Head(s)>> \o CStr(Tail(s))

Sat(n) == Min(n + 1, CountCap)

(***************************************************************************)
(* The tags the environment can present.  key = 0 is Settings::KeyA,       *)
(* 1..9 index defaultPICCKeyAs, 10 is a key the device does not know.      *)
(* Key A of the tag opens block 2 of the sectors whose block-2 address is  *)
(* in blocks2.                                                             *)
(***************************************************************************)
Tags ==
    << [uid |-> <<17, 34, 51, 68>>, key |-> 0, blocks2 |-> {6}],
       [uid |-> <<136, 4, 177, 178, 179, 180, 181, 182, 183, 184>>, key |-> 3, blocks2 |-> {62}],
       [uid |-> <<4, 161, 162, 163, 164, 165, 166>>, key |-> 2, blocks2 |-> {10, 14, 62}] >>

NoTag == 0
TagIds == 1..Len(Tags)
\* The tags presented to the polling loop; the third one, whose key opens
\* several sectors, is presented to the key trial on its own.
FieldTags == {1, 2}

\* Contents of block a of tag t: every block of every tag holds another byte.
TagBlock(t, a) == Fill(blockSize, (t * (maxBlockNo + 1) + a) % 256)

\* The blocks written to the tag in the field: none when it enters.
NoMem == [a \in {} |-> <<>>]
\* MIFARE_Write(a, d, 16) on a tag whose written blocks are m.
Stored(m, a, d) == [x \in DOMAIN m \cup {a} |-> IF x = a THEN d ELSE m[x]]
\* MIFARE_Read(a, ...) of tag t whose written blocks are m.
BlockAt(t, m, a) == IF a \in DOMAIN m THEN m[a] ELSE TagBlock(t, a)

\* Values of memory that the program reads before it has written it.
GarbageBuffers == {Fill(READY_SIGNAL_SIZE, 0), READY_SIGNAL \o <<0>>, <<65, 67, 75, 0, 82, 69>>}
GarbageAckBuffers == {Fill(ACK_SIGNAL_SIZE, 0), ACK_SIGNAL \o <<0>>}
GarbageUids == {Fill(UidBufSize, 0), Fill(UidBufSize, 238)}
GarbageKeys == {Fill(MF_KEY_SIZE, 0)}

\* What the backend can answer (HTTP 200 bodies): a secret key, a trust key
\* echoing this device, a trust key of another device, and error strings.
SecretKeys == {<<1, 2, 3, 4, 5, 6>>, <<1, 2, 0, 4, 5, 6>>}
OtherDeviceId == <<239, 18, 52, 86, 171, 205, 239, 171>>
TrustOrgId == <<18, 52, 86, 171, 205, 239, 18, 161>>
NewTrustKey == Fill(32, 119)
\* "Malformed request!-0": the error strings of the backend up to their last
\* character, '5' for the 35-byte and '6' for the 67-byte request.
MalformedReply ==
    <<77, 97, 108, 102, 111, 114, 109, 101, 100, 32, 114, 101, 113, 117, 101, 115, 116, 33, 45, 48>>
\* A trust key whose hash has a zero byte.
ZeroTrustKey == [i \in 1..32 |-> IF i = 5 THEN 0 ELSE 119]
Bodies35 == SecretKeys \cup {MalformedReply \o <<53>>}
Bodies67 == {NewTrustKey \o TrustOrgId \o DEVICE_ID,
             NewTrustKey \o TrustOrgId \o OtherDeviceId,
             ZeroTrustKey \o TrustOrgId \o DEVICE_ID,
             MalformedReply \o <<54>>}
HTTP_CLIENT_ERROR == 1
HTTP_SERVER_ERROR == 2
INVALID_BUFFER_SIZE == -13
HTTP_CODE_OK == 200
\* Values http.POST can return: a client error, 200 and a server error status.
HttpCodes == {-1, HTTP_CODE_OK, 500}

(***************************************************************************)
(* State.                                                                  *)
(***************************************************************************)
VARIABLES
    mode,          \* "Standard" or "TrustIssuer" (IS_TRUST_ORG defined)
    pc,            \* position of the device's main context
    onInterrupt,   \* the flag shared by the ISR and the main loop
    m_state,       \* last argument of setStatusMsg
    m_detailsMsg,  \* last argument of setDetailsMsg
    buffer,        \* main's READY buffer
    uid,           \* m_rc522.uid: size and the 10-byte uidByte array
    m_blockAuth,   \* Transmitter::m_blockAuth
    m_cardData,    \* Transmitter::m_cardData
    m_PiccKeyB,    \* Transmitter::m_PiccKeyB
    key,           \* index of the key attemptBlock2Auth is trying
    startBlock,    \* loop variable of readPICC / writePICC
    addr,          \* loop variable of readPICC / writePICC
    isrAttached,   \* attachInterrupt has run
    comIEnReg,     \* the reader's interrupt enable register was written
    tx,            \* serial bytes device -> bridge, not yet read
    rx,            \* serial bytes bridge -> device, not yet read
    tag,           \* tag in the field (NoTag or an index of Tags)
    tagState,      \* ISO 14443-3 state of the tag in the field
    faults,        \* RF faults of the current cycle
    splits,        \* timed reads cut short so far
    cycles,        \* selects of handleDetectedCard answered so far
    mem,           \* blocks of the tag in the field written since it entered
    bpc,           \* position of the bridge
    bbuf,          \* the bridge's ACK buffer
    served,        \* history: what handleEvents did with the pending request
    mainOp,        \* history: last operation of the main context
    cyc,           \* history: what the current handleDetectedCard call did
    lastReq,       \* history: the last request frame written and its fields
    tapCycles,     \* history: read cycles started during the current tap
    readySent,     \* history: the bridge has written READY
    secretKeysTable,       \* backend: rows of secretKeysTable, by id
    rollingPasswordTable,  \* backend: rows of rollingPasswordTable, by id
    bin_input,     \* backend: body of the last request
    bin_response   \* backend: what the last request was answered

devVars == <<mode, pc, onInterrupt, m_state, m_detailsMsg, buffer, uid,
             m_blockAuth, m_cardData, m_PiccKeyB, key,
             startBlock, addr, isrAttached, comIEnReg>>
linkVars == <<tx, rx>>
envVars == <<tag, tagState, faults, splits, cycles, mem>>
bridgeVars == <<bpc, bbuf, served>>
histVars == <<mainOp, cyc, lastReq, tapCycles, readySent>>
backendVars == <<secretKeysTable, rollingPasswordTable, bin_input, bin_response>>
vars == <<devVars, linkVars, envVars, bridgeVars, histVars, backendVars>>

NoCycle ==
    [selected |-> FALSE, authOK |-> FALSE, reqs35 |-> 0, reqs67 |-> 0,
     dataReads |-> 0, readRan |-> FALSE, readOK |-> FALSE, netRan |-> FALSE,
     netOK |-> FALSE, netSilent |-> FALSE, writeRan |-> FALSE, dataWrites |-> 0,
     upgradeRan |-> FALSE, acks |-> 0, clears |-> 0, halts |-> 0,
     returned |-> FALSE, keysTried |-> <<>>, okStride |-> 0, reselect |-> "ok",
     blocksRead |-> <<>>, blocksWritten |-> <<>>, trailerWrites |-> <<>>]

NoServe == [n |-> 0, post |-> FALSE, code |-> 0, body |-> <<>>, written |-> <<>>]

NoReq == [bytes |-> <<>>, uidSize |-> 0, uidByte |-> <<>>, devId |-> <<>>, payload |-> <<>>]

\* The tables as the schema creates them, and no request served yet.
InitTables ==
    /\ secretKeysTable = <<>>
    /\ rollingPasswordTable = <<>>
    /\ bin_input = <<>>
    /\ bin_response = <<>>

Init ==
    /\ mode \in {"Standard", "TrustIssuer"}
    /\ pc = "boot"
    /\ onInterrupt = FALSE
    /\ m_state = "BootUp"
    /\ m_detailsMsg = "The weather today is too cold for me (:!"
    /\ buffer \in GarbageBuffers
    /\ uid \in [size : {0}, uidByte : GarbageUids]
    /\ m_blockAuth = [block0Addr |-> 0, isCardNew |-> FALSE, status |-> STATUS_OK,
                      authKeyA |-> Fill(MF_KEY_SIZE, 0), block2Data |-> Fill(blockSize, 0)]
    /\ m_cardData = [status |-> STATUS_OK, readData |-> Fill(TrustKeySize, 0)]
    /\ m_PiccKeyB \in GarbageKeys
    /\ key = 0
    /\ startBlock = 0
    /\ addr = 0
    /\ isrAttached = FALSE
    /\ comIEnReg = FALSE
    /\ tx = <<>>
    /\ rx = <<>>
    /\ tag = NoTag
    /\ tagState = "IDLE"
    /\ faults = 0
    /\ splits = 0
    /\ cycles = 0
    /\ mem = NoMem
    /\ bpc = "boot"
    /\ bbuf \in GarbageAckBuffers
    /\ served = NoServe
    /\ mainOp = "Display"
    /\ cyc = NoCycle
    /\ lastReq = NoReq
    /\ tapCycles = 0
    /\ readySent = FALSE
    /\ InitTables

\* A step of the main context performing operation op.
Main(op) == mainOp' = op

(***************************************************************************)
(* The interrupt service routine.                                          *)
(***************************************************************************)
\* onInterrupt = true;  (ISRFlagInverted: a routine that toggles the flag.)
ISRFlagInverted == ~onInterrupt
ISRFlag == TRUE

\* Everything but the flag.
otherThanFlag ==
    <<mode, pc, m_state, m_detailsMsg, buffer, uid, m_blockAuth, m_cardData,
      m_PiccKeyB, key, startBlock, addr, isrAttached, comIEnReg,
      linkVars, envVars, bridgeVars, mainOp, cyc, lastReq, tapCycles, readySent>>

\* void handleInterrupt() { onInterrupt = true; }  on a CHANGE edge of the
\* IRQ pin, once attachInterrupt has run.
handleInterrupt ==
    /\ isrAttached
    /\ onInterrupt' = ISRFlag
    /\ UNCHANGED otherThanFlag
    /\ UNCHANGED backendVars

(***************************************************************************)
(* main: boot handshake and interrupt arming.                              *)
(***************************************************************************)
\* Frame of a main-context step: everything but the listed variables.
MainBootFrame ==
    UNCHANGED <<mode, uid, m_blockAuth, m_cardData, m_PiccKeyB, key, startBlock, addr, tag, tagState, faults, cycles, mem, bridgeVars, cyc, lastReq,
                tapCycles, readySent>>

\* view.setStatusMsg(Display::Loading)
EnterLoading ==
    /\ pc = "boot"
    /\ pc' = "hs_write"
    /\ m_state' = "Loading"
    /\ m_detailsMsg' = "WiFi and devices configuration in progress"
    /\ Main("setStatusMsg")
    /\ MainBootFrame
    /\ UNCHANGED splits
    /\ UNCHANGED <<onInterrupt, buffer, isrAttached, comIEnReg, tx, rx>>
    /\ UNCHANGED backendVars

\* Serial1.write(Settings::ACK_SIGNAL)
HsWriteAck ==
    /\ pc = "hs_write"
    /\ pc' = "hs_read"
    /\ tx' = Enqueue(tx, ACK_SIGNAL, AckCap)
    /\ Main("Serial1.write")
    /\ MainBootFrame
    /\ UNCHANGED splits
    /\ UNCHANGED <<onInterrupt, m_state, m_detailsMsg, buffer, isrAttached, comIEnReg, rx>>
    /\ UNCHANGED backendVars

\* Byte counts a timed readBytes(., n) can return when q is what the sender
\* has put on the link: all of it, or a prefix cut by the timeout.
ReadCounts(n, q) ==
    {k \in 0..Min(n, Len(q)) : k = Min(n, Len(q)) \/ splits < MaxSplits}

Split(n, q, k) == IF k < Min(n, Len(q)) THEN 1 ELSE 0

\* The same for the replies of a cycle: all of the reply, or all but its
\* last byte.
ReplyCounts(n, q) == {k \in ReadCounts(n, q) : k >= Min(n, Len(q)) - 1}

\* The bridge has not yet answered the request that is on the link: a read
\* that returns now has timed out before the reply.
Unanswered == rx = <<>> /\ tx # <<>>

TimedOut == IF Unanswered THEN 1 ELSE 0

\* The READY comparison of the handshake loop.
IsReady(buf) == MemEq(READY_SIGNAL, buf, READY_SIGNAL_SIZE - 1)

\* Serial1.readBytes(buffer, READY_SIGNAL_SIZE) and the comparison: the read
\* returns the k bytes that arrived before it completed or timed out.
HsRead ==
    /\ pc = "hs_read"
    /\ \E k \in ReadCounts(READY_SIGNAL_SIZE, rx) :
        /\ buffer' = MemCpy(buffer, rx, k)
        /\ rx' = Drop(rx, k)
        /\ splits' = splits + Split(READY_SIGNAL_SIZE, rx, k)
    /\ pc' = IF IsReady(buffer') THEN "hs_done" ELSE "hs_write"
    /\ Main("Serial1.readBytes")
    /\ MainBootFrame
    /\ UNCHANGED <<onInterrupt, m_state, m_detailsMsg, isrAttached, comIEnReg, tx>>
    /\ UNCHANGED backendVars

\* free(buffer), Transmitter rfid {...}, setTimeout, pinMode, attachInterrupt.
\* free() of the stack array only touches allocator bookkeeping that main
\* never uses again.
AttachInterrupt ==
    /\ pc = "hs_done"
    /\ pc' = "wait_edge"
    /\ isrAttached' = TRUE
    /\ Main("attachInterrupt")
    /\ MainBootFrame
    /\ UNCHANGED splits
    /\ UNCHANGED <<onInterrupt, m_state, m_detailsMsg, buffer, comIEnReg, tx, rx>>
    /\ UNCHANGED backendVars

\* do { ; } while(onInterrupt);  the loop is left when the flag reads false.
WaitLoopExits(flag) == ~flag

WaitEdge ==
    /\ pc = "wait_edge"
    /\ WaitLoopExits(onInterrupt)
    /\ pc' = "enable_irq"
    /\ Main("waitLoop")
    /\ MainBootFrame
    /\ UNCHANGED splits
    /\ UNCHANGED <<onInterrupt, m_state, m_detailsMsg, buffer, isrAttached, comIEnReg, tx, rx>>
    /\ UNCHANGED backendVars

\* rfid.enableInterrupts(): PCD_WriteRegister(ComIEnReg, activateIRQ)
EnableInterrupts ==
    /\ pc = "enable_irq"
    /\ pc' = "clear_flag"
    /\ comIEnReg' = TRUE
    /\ Main("enableInterrupts")
    /\ MainBootFrame
    /\ UNCHANGED splits
    /\ UNCHANGED <<onInterrupt, m_state, m_detailsMsg, buffer, isrAttached, tx, rx>>
    /\ UNCHANGED backendVars

\* onInterrupt = false;  (main, after enableInterrupts)
StartupClear ==
    /\ pc = "clear_flag"
    /\ pc' = "enter_standby"
    /\ onInterrupt' = FALSE
    /\ Main("clearFlag")
    /\ UNCHANGED <<mode, uid, m_blockAuth, m_cardData, m_PiccKeyB, key, startBlock, addr, envVars, bridgeVars, cyc, lastReq,
                   tapCycles, readySent>>
    /\ UNCHANGED <<m_state, m_detailsMsg, buffer, isrAttached, comIEnReg, tx, rx>>
    /\ UNCHANGED backendVars

\* rfid.timerDelay(REFRESH_DELAY); rfid.setStatusMsg(Display::StandBy)
EnterStandBy ==
    /\ pc = "enter_standby"
    /\ pc' = "loop"
    /\ m_state' = "StandBy"
    /\ m_detailsMsg' = "The weather today is too cold for me (:!"
    /\ Main("setStatusMsg")
    /\ MainBootFrame
    /\ UNCHANGED splits
    /\ UNCHANGED <<onInterrupt, buffer, isrAttached, comIEnReg, tx, rx>>
    /\ UNCHANGED backendVars


(***************************************************************************)
(* main: the polling loop.                                                 *)
(***************************************************************************)
bootVars == <<mode, buffer, isrAttached, comIEnReg>>
dispVars == <<m_state, m_detailsMsg>>
authVars == <<key>>
loopVars == <<startBlock, addr>>
tapVars == <<tapCycles>>

\* if (onInterrupt) rfid.handleDetectedCard(); else rfid.activateTransmission();
LoopCheck ==
    /\ pc = "loop"
    /\ IF onInterrupt
         THEN pc' = "hdc_select"
         ELSE pc' = "act_check"
    /\ Main("loopCheck")
    /\ UNCHANGED <<bootVars, dispVars, authVars, loopVars, tapVars>>
    /\ UNCHANGED <<onInterrupt, uid, m_blockAuth, m_cardData, m_PiccKeyB, cyc, lastReq, readySent>>
    /\ UNCHANGED <<linkVars, envVars, bridgeVars>>
    /\ UNCHANGED backendVars

\* activateTransmission: if (onInterrupt) return;
ActCheck ==
    /\ pc = "act_check"
    /\ pc' = IF onInterrupt THEN "delay" ELSE "act_write"
    /\ Main("activateTransmission")
    /\ UNCHANGED <<bootVars, dispVars, authVars, loopVars, tapVars>>
    /\ UNCHANGED <<onInterrupt, uid, m_blockAuth, m_cardData, m_PiccKeyB, cyc, lastReq, readySent>>
    /\ UNCHANGED <<linkVars, envVars, bridgeVars>>
    /\ UNCHANGED backendVars

\* activateTransmission: the three register writes that transmit REQA.
ActWrite ==
    /\ pc = "act_write"
    /\ pc' = "delay"
    /\ Main("REQA")
    /\ UNCHANGED <<bootVars, dispVars, authVars, loopVars, tapVars>>
    /\ UNCHANGED <<onInterrupt, uid, m_blockAuth, m_cardData, m_PiccKeyB, cyc, lastReq, readySent>>
    /\ UNCHANGED <<linkVars, envVars, bridgeVars>>
    /\ UNCHANGED backendVars

\* rfid.timerDelay(Settings::REFRESH_DELAY)
TimerDelay ==
    /\ pc = "delay"
    /\ pc' = "loop"
    /\ cyc' = NoCycle
    /\ lastReq' = NoReq
    /\ Main("timerDelay")
    /\ UNCHANGED <<bootVars, dispVars, authVars, loopVars, tapVars>>
    /\ UNCHANGED <<onInterrupt, uid, m_blockAuth, m_cardData, m_PiccKeyB, readySent>>
    /\ served' = NoServe
    /\ UNCHANGED <<linkVars, envVars, bpc, bbuf>>
    /\ UNCHANGED backendVars

(***************************************************************************)
(* Tag operations: results the environment can give.                       *)
(***************************************************************************)
\* PICC_IsNewCardPresent() && PICC_ReadCardSerial(): a tag answers REQA and
\* is selected only when it is in the field and not in HALT state.
CanSelect == tag # NoTag /\ tagState # "HALT"

\* Authentication, reads and writes are answered only by the selected tag.
Active(st) == tag # NoTag /\ st = "ACTIVE"

\* A tag drops out of the ACTIVE state on a command it rejects or cannot decode.
Dropped(st) == IF st = "ACTIVE" THEN "IDLE" ELSE st

\* PICC_Select stores the size and the first size bytes of the UID.
Selected(u, t) == [size |-> Len(Tags[t].uid),
                   uidByte |-> MemCpy(u.uidByte, Tags[t].uid, Len(Tags[t].uid))]

\* Key A of the sector of block-2 address b2: Settings::KeyA (index 0) once
\* setUidBasedKey has written the sector trailer, the tag's own key before.
SectorKeyA(b2) == IF b2 + 1 \in DOMAIN mem THEN 0 ELSE Tags[tag].key

\* Key A authentication of a block-2 address with key index k.
KeyFits(k, b2, st) == Active(st) /\ SectorKeyA(b2) = k /\ b2 \in Tags[tag].blocks2

KeyBytes(k) == IF k = 0 THEN KeyA ELSE defaultPICCKeyAs[k]

\* Results of an operation that succeeds unless an RF fault occurs.
Results(can) == IF ~can THEN {FALSE}
                ELSE IF faults < MaxFaults THEN {TRUE, FALSE} ELSE {TRUE}

Fault(can, ok) == IF can /\ ~ok THEN 1 ELSE 0

(***************************************************************************)
(* Transmitter::handleDetectedCard, readPICC, attemptBlock2Auth.           *)
(***************************************************************************)
\* if (isNewCardDetected()) { readPICC(); ... }
HdcSelect ==
    /\ pc = "hdc_select"
    /\ \E ok \in IF CanSelect /\ cycles < MaxCycles THEN BOOLEAN ELSE {FALSE} :
        IF ok
          THEN /\ pc' = "rd_start"
               /\ uid' = Selected(uid, tag)
               /\ cyc' = [cyc EXCEPT !.selected = TRUE]
               /\ tapCycles' = Sat(tapCycles)
               /\ cycles' = cycles + 1
               /\ tagState' = "ACTIVE"
          ELSE /\ pc' = "hdc_standby"
               /\ tagState' = Dropped(tagState)
               /\ UNCHANGED <<uid, cyc, tapCycles, cycles>>
    /\ faults' = 0
    /\ Main("isNewCardDetected")
    /\ UNCHANGED <<bootVars, dispVars, authVars, loopVars>>
    /\ UNCHANGED <<onInterrupt, m_blockAuth, m_cardData, m_PiccKeyB, lastReq, readySent>>
    /\ UNCHANGED <<linkVars, tag, splits, mem, bridgeVars>>
    /\ UNCHANGED backendVars

\* readPICC: default statuses, setStatusMsg(ReadTag), first key is Settings::KeyA.
RdStart ==
    /\ pc = "rd_start"
    /\ pc' = "auth"
    /\ m_cardData' = [m_cardData EXCEPT !.status = STATUS_ERROR]
    /\ m_blockAuth' = [m_blockAuth EXCEPT !.status = STATUS_ERROR]
    /\ m_state' = "ReadTag"
    /\ m_detailsMsg' = "Init authentication to validate key!"
    /\ key' = 0
    /\ cyc' = [cyc EXCEPT !.readRan = TRUE]
    /\ Main("readPICC")
    /\ UNCHANGED <<bootVars, loopVars, tapVars>>
    /\ UNCHANGED <<onInterrupt, uid, m_PiccKeyB, lastReq, readySent>>
    /\ UNCHANGED <<linkVars, envVars, bridgeVars>>
    /\ UNCHANGED backendVars

\* Results of an operation when f faults have occurred in this cycle.
ResultsAt(can, f) == IF ~can THEN {FALSE}
                     ELSE IF f < MaxFaults THEN {TRUE, FALSE} ELSE {TRUE}

\* attemptBlock2Auth: auth.block0Addr = block2Addr - 2;
\* (Block0OfOneBelow: the address of block 1 taken for that of block 0.)
Block0OfOneBelow(block2Addr) == block2Addr - 1
Block0Of(block2Addr) == block2Addr - 2

\* attemptBlock2Auth: if (!isNewCardDetected()) break;
\* (StopsOnLostTagNever: the loop going on after a failed reselect.)
StopsOnLostTagNever == FALSE
StopsOnLostTag == TRUE

\* The stride loop of attemptBlock2Auth from block2Addr on, for key index k:
\* the set of results it can end with. b0 is auth.block0Addr, u is m_rc522.uid
\* and f the faults so far. The read buffer matters only when the status is OK.
\* g follows the reselects after a failed authentication: "ok" while none has
\* failed, "lost" once one has, "after" once a stride was attempted after that.
\* okStride is the stride that authenticated and was read, 0 if there is none.
RECURSIVE AuthStrides(_, _, _, _, _, _, _)
\* The loop's next iteration, block2Addr += sectorBlocks, in loop state n.
NextStride(k, block2Addr, n) ==
    AuthStrides(k, block2Addr + sectorBlocks, n.b0, n.u, n.st, n.f, n.g)

AuthStrides(k, block2Addr, b0, u, st, f, g) ==
    IF block2Addr > maxBlockNo
      THEN {[status |-> STATUS_ERROR, block0Addr |-> b0, buffer |-> Fill(blockSize, 0),
             uid |-> u, tagState |-> st, faults |-> f, okStride |-> 0, reselect |-> g]}
      ELSE LET g1 == IF g = "ok" THEN "ok" ELSE "after" IN
        UNION {
        IF authOK
          THEN UNION {
                 IF readOK
                   THEN {[status |-> STATUS_OK, block0Addr |-> Block0Of(block2Addr),
                          buffer |-> BlockAt(tag, mem, block2Addr), uid |-> u,
                          tagState |-> st, faults |-> f, okStride |-> block2Addr,
                          reselect |-> g1]}
                   ELSE UNION { NextStride(k, block2Addr, n)
                                : n \in { [b0 |-> Block0Of(block2Addr),
                                           u |-> IF resel THEN Selected(u, tag) ELSE u,
                                           st |-> IF resel THEN "ACTIVE" ELSE "IDLE",
                                           f |-> f + 1, g |-> g1]
                                          : resel \in BOOLEAN } }
                 : readOK \in ResultsAt(TRUE, f) }
          ELSE LET f1 == f + Fault(KeyFits(k, block2Addr, st), authOK)
               IN  UNION {
                     IF resel
                       THEN UNION { NextStride(k, block2Addr, n)
                                    : n \in { [b0 |-> b0, u |-> Selected(u, tag),
                                               st |-> "ACTIVE", f |-> f1, g |-> g1] } }
                       ELSE IF StopsOnLostTag
                         THEN {[status |-> STATUS_ERROR, block0Addr |-> b0,
                                buffer |-> Fill(blockSize, 0), uid |-> u,
                                tagState |-> Dropped(st), faults |-> f1,
                                okStride |-> 0,
                                reselect |-> IF g1 = "ok" THEN "lost" ELSE g1]}
                         ELSE UNION { NextStride(k, block2Addr, n)
                                      : n \in { [b0 |-> b0, u |-> u, st |-> Dropped(st),
                                                 f |-> f1,
                                                 g |-> IF g1 = "ok" THEN "lost" ELSE g1] } }
                     : resel \in IF tag # NoTag /\ st # "HALT" THEN BOOLEAN ELSE {FALSE} }
        : authOK \in ResultsAt(KeyFits(k, block2Addr, st), f) }

\* The key readPICC tries after key k failed: defaultPICCKeyAs in index order,
\* in TrustIssuer mode only; keysCount + 1 means no key is left.
\* (NextKeySkipping: the loop index advanced twice per iteration.)
NextKeySkipping(m, k) ==
    IF m = "TrustIssuer" /\ k + 1 < keysCount THEN k + 2 ELSE keysCount + 1
NextKey(m, k) == IF m = "TrustIssuer" /\ k < keysCount THEN k + 1 ELSE keysCount + 1

\* attemptBlock2Auth(m_blockAuth, key) and readPICC's decision on its status:
\* go on to the secret-key request, try the next key, or give up.
AttemptBlock2Auth ==
    /\ pc = "auth"
    /\ \E r \in AuthStrides(key, FirstBlock2Addr, m_blockAuth.block0Addr, uid,
                            tagState, faults, "ok") :
        /\ uid' = r.uid
        /\ tagState' = r.tagState
        /\ faults' = r.faults
        /\ IF r.status = STATUS_OK
             THEN /\ m_blockAuth' = [status |-> STATUS_OK,
                                     block0Addr |-> r.block0Addr,
                                     authKeyA |-> KeyBytes(key),
                                     isCardNew |-> (KeyBytes(key) # KeyA),
                                     block2Data |-> r.buffer]
                  /\ pc' = "rd_pack"
                  /\ cyc' = [cyc EXCEPT !.authOK = TRUE,
                                        !.keysTried = Append(@, [k |-> key, ok |-> TRUE]),
                                        !.okStride = r.okStride,
                                        !.reselect = r.reselect]
                  /\ key' = 0
                  /\ UNCHANGED m_detailsMsg
             ELSE /\ m_blockAuth' = [m_blockAuth EXCEPT !.status = STATUS_ERROR,
                                                        !.block0Addr = r.block0Addr]
                  /\ cyc' = [cyc EXCEPT !.keysTried = Append(@, [k |-> key, ok |-> FALSE]),
                                        !.okStride = r.okStride,
                                        !.reselect = r.reselect]
                  /\ IF NextKey(mode, key) <= keysCount
                       THEN /\ key' = NextKey(mode, key)
                            /\ pc' = "auth"
                            /\ UNCHANGED m_detailsMsg
                       ELSE /\ m_detailsMsg' = "KeyA validity failed. Try another tag!"
                            /\ pc' = "after_read"
                            /\ key' = 0
    /\ Main("attemptBlock2Auth")
    /\ UNCHANGED <<bootVars, loopVars, tapVars, m_state>>
    /\ UNCHANGED <<onInterrupt, m_cardData, m_PiccKeyB, lastReq, readySent>>
    /\ UNCHANGED <<linkVars, tag, splits, cycles, mem, bridgeVars>>
    /\ UNCHANGED backendVars


\* memcpy(frame + off, src, n) on a frame indexed from 1.
Place(frame, off, src, n) ==
    [i \in 1..Len(frame) |-> IF i > off /\ i <= off + n THEN src[i - off] ELSE frame[i]]

\* Offsets of the fields of a request frame after the UID size byte:
\* dataSent+1 / txData+1, dataSent+11 / txData+11, dataSent+19 / txData+19.
\* (DevIdOffsetInsideUid: the device ID packed over the last UID byte.)
UidOffset == 1

DevIdOffsetInsideUid == UidBufSize
DevIdOffset == 11

PayloadOffset == 19

\* The device-ID field of the secret-key request.
\* (DeviceIdBuffAlways: the device ID copied in every build.)
DeviceIdBuffAlways(m) == DEVICE_ID
DeviceIdBuff(m) == IF m = "TrustIssuer" THEN DEVICE_ID ELSE Fill(Len(DEVICE_ID), 0)

\* readPICC: dataSent, SecretKeyAuthDataSize bytes.
SecretKeyFrame(u, devBuf, block2) ==
    LET f0 == Fill(SecretKeyAuthDataSize, 0)
        f1 == [f0 EXCEPT ![1] = u.size]
        f2 == Place(f1, UidOffset, u.uidByte, UidBufSize)
        f3 == Place(f2, DevIdOffset, devBuf, Len(DEVICE_ID))
    IN  Place(f3, PayloadOffset, block2, blockSize)

\* networkConn: txData, TrustKeyAuthDataSize bytes.
\* (TrustKeyFrameKeyed: KeyB copied over the head of the payload.)
TrustKeyFrameKeyed(u, readData) ==
    LET f0 == Fill(TrustKeyAuthDataSize, 0)
        f1 == [f0 EXCEPT ![1] = u.size]
        f2 == Place(f1, UidOffset, u.uidByte, UidBufSize)
        f3 == Place(f2, DevIdOffset, DEVICE_ID, Len(DEVICE_ID))
        f4 == Place(f3, PayloadOffset, readData, TrustKeySize)
    IN  Place(f4, PayloadOffset, m_PiccKeyB, MF_KEY_SIZE)
TrustKeyFrame(u, readData) ==
    LET f0 == Fill(TrustKeyAuthDataSize, 0)
        f1 == [f0 EXCEPT ![1] = u.size]
        f2 == Place(f1, UidOffset, u.uidByte, UidBufSize)
        f3 == Place(f2, DevIdOffset, DEVICE_ID, Len(DEVICE_ID))
    IN  Place(f3, PayloadOffset, readData, TrustKeySize)

\* while(Serial1.available() > 0) Serial1.read();  what is left of the
\* receive buffer q.  (DrainSkipped: the request written without the drain.)
DrainSkipped(q) == q
Drain(q) == <<>>

\* readPICC: pack the 35-byte request, drain Serial1, write the request.
RdPack ==
    /\ pc = "rd_pack"
    /\ pc' = "rd_wait"
    /\ LET dataSent == SecretKeyFrame(uid, DeviceIdBuff(mode), m_blockAuth.block2Data)
       IN  /\ tx' = Enqueue(tx, dataSent, TxCap)
           /\ lastReq' = [bytes |-> dataSent, uidSize |-> uid.size, uidByte |-> uid.uidByte,
                          devId |-> DeviceIdBuff(mode), payload |-> m_blockAuth.block2Data]
    /\ rx' = Drain(rx)
    /\ cyc' = [cyc EXCEPT !.reqs35 = Sat(@)]
    /\ Main("Serial1.write")
    /\ UNCHANGED <<bootVars, dispVars, authVars, loopVars, tapVars>>
    /\ UNCHANGED <<onInterrupt, uid, m_blockAuth, m_cardData, m_PiccKeyB, readySent>>
    /\ served' = NoServe
    /\ UNCHANGED <<envVars, bpc, bbuf>>
    /\ UNCHANGED backendVars

\* setPICCAuthKeyB: KeyB = secretKey xor KeyA xor the zero-padded tag UID.
\* (TagUidUnpadded: the six leading bytes of uidByte whatever the UID size.)
TagUidUnpadded(u) == SubSeq(u.uidByte, 1, MF_KEY_SIZE)
TagUid(u) == [i \in 1..MF_KEY_SIZE |-> IF i <= Min(u.size, MF_KEY_SIZE) THEN u.uidByte[i] ELSE 0]

\* (setPICCAuthKeyBSum: the three bytes added instead of xor-ed.)
setPICCAuthKeyBSum(secretKey, u) ==
    [i \in 1..MF_KEY_SIZE |-> (secretKey[i] + KeyA[i] + TagUid(u)[i]) % 256]
setPICCAuthKeyB(secretKey, u) ==
    [i \in 1..MF_KEY_SIZE |-> BitXor(BitXor(secretKey[i], KeyA[i]), TagUid(u)[i])]

\* readPICC: read the secret key, derive KeyB, check the block range.
RdSecret ==
    /\ pc = "rd_wait"
    /\ Unanswered => splits < MaxSplits
    /\ \E k \in ReplyCounts(MF_KEY_SIZE, rx) :
        LET secretKey == MemCpy(Fill(MF_KEY_SIZE, 0), rx, k)
            lastValidBlock == m_blockAuth.block0Addr + (TrustKeySize \div blockSize)
        IN  /\ rx' = Drop(rx, k)
            /\ splits' = splits + Split(MF_KEY_SIZE, rx, k) + TimedOut
            /\ IF k # MF_KEY_SIZE
                 THEN /\ m_detailsMsg' = "Fetching the Secret Key failed. Try another tag!"
                      /\ pc' = "after_read"
                      /\ UNCHANGED <<m_PiccKeyB, startBlock, addr>>
                 ELSE /\ m_PiccKeyB' = setPICCAuthKeyB(secretKey, uid)
                      /\ IF lastValidBlock <= maxBlockNo
                           THEN /\ m_detailsMsg' = "Initiating data extraction from the tag!"
                                /\ pc' = "rd_block"
                                /\ startBlock' = 0
                                /\ addr' = m_blockAuth.block0Addr
                           ELSE /\ m_detailsMsg' = "Tag blocks are full. Try another tag!"
                                /\ pc' = "after_read"
                                /\ UNCHANGED <<startBlock, addr>>
    /\ Main("Serial1.readBytes")
    /\ UNCHANGED <<bootVars, authVars, tapVars, m_state>>
    /\ lastReq' = NoReq
    /\ UNCHANGED <<onInterrupt, uid, m_blockAuth, m_cardData, cyc, readySent>>
    /\ UNCHANGED <<tx, tag, tagState, faults, cycles, mem, bridgeVars>>
    /\ UNCHANGED backendVars

\* The sector trailer test of the read and write loops.
IsTrailer(a) == (a + 1) % sectorBlocks = 0

\* Key B authentication of data block a with the key readPICC passes,
\* authKeyA for a new card and keyB otherwise.  Key B of a sector whose
\* trailer the device wrote is the one it wrote; that of another sector is
\* the tag's own, which the key passed may match or not.
DataKeyFits(a, auth, keyB) ==
    LET trailer == a - (a % sectorBlocks) + sectorBlocks - 1
    IN  trailer \in DOMAIN mem =>
            SubSeq(mem[trailer], blockSize - MF_KEY_SIZE + 1, blockSize)
                = IF auth.isCardNew THEN auth.authKeyA ELSE keyB

\* One evaluation of readPICC's data block loop.
RdBlock ==
    /\ pc = "rd_block"
    /\ IF ~(startBlock < TrustKeySize \div blockSize /\ addr < maxBlockNo)
         THEN /\ pc' = "rd_end"
              /\ UNCHANGED <<m_cardData, startBlock, addr, faults, cyc, tagState>>
         ELSE IF IsTrailer(addr)
           THEN /\ addr' = addr + 1
                /\ pc' = "rd_block"
                /\ UNCHANGED <<m_cardData, startBlock, faults, cyc, tagState>>
           ELSE \E authOK \in IF Active(tagState) /\ DataKeyFits(addr, m_blockAuth, m_PiccKeyB)
                                 THEN BOOLEAN ELSE {FALSE} :
                  IF ~authOK
                    THEN /\ m_cardData' = [m_cardData EXCEPT !.status = STATUS_ERROR]
                         /\ pc' = "rd_end"
                         /\ tagState' = Dropped(tagState)
                         /\ UNCHANGED <<startBlock, addr, faults, cyc>>
                    ELSE \E readOK \in Results(TRUE) :
                          /\ faults' = faults + Fault(TRUE, readOK)
                          /\ cyc' = [cyc EXCEPT
                                        !.dataReads = Sat(@),
                                        !.blocksRead =
                                            IF readOK
                                              THEN Append(@, [a |-> addr,
                                                              d |-> BlockAt(tag, mem, addr)])
                                              ELSE @]
                          /\ tagState' = IF readOK THEN tagState ELSE "IDLE"
                          /\ IF readOK
                               THEN /\ m_cardData' =
                                         [status |-> STATUS_OK,
                                          readData |-> Place(m_cardData.readData,
                                                             startBlock * blockSize,
                                                             BlockAt(tag, mem, addr), blockSize)]
                                    /\ startBlock' = startBlock + 1
                                    /\ addr' = addr + 1
                                    /\ pc' = "rd_block"
                               ELSE /\ m_cardData' = [m_cardData EXCEPT !.status = STATUS_ERROR]
                                    /\ pc' = "rd_end"
                                    /\ UNCHANGED <<startBlock, addr>>
    /\ Main("readPICC")
    /\ UNCHANGED <<bootVars, dispVars, authVars, tapVars>>
    /\ UNCHANGED <<onInterrupt, uid, m_blockAuth, m_PiccKeyB, lastReq, readySent>>
    /\ UNCHANGED <<linkVars, tag, splits, cycles, mem, bridgeVars>>
    /\ UNCHANGED backendVars

\* readPICC: the message after the data block loop.
RdEnd ==
    /\ pc = "rd_end"
    /\ pc' = "after_read"
    /\ m_detailsMsg' = IF m_cardData.status = STATUS_OK
                         THEN "Tag reading was successful!"
                         ELSE "Reading the tag failed. Try another tag!"
    /\ startBlock' = 0 /\ addr' = 0
    /\ Main("readPICC")
    /\ UNCHANGED <<bootVars, authVars, tapVars, m_state>>
    /\ UNCHANGED <<onInterrupt, uid, m_blockAuth, m_cardData, m_PiccKeyB, cyc, lastReq, readySent>>
    /\ UNCHANGED <<linkVars, envVars, bridgeVars>>
    /\ UNCHANGED backendVars

\* handleDetectedCard: the test guarding networkConn().
\* (ReadSucceededIgnored: networkConn called whatever readPICC returned.)
ReadSucceededIgnored == TRUE
ReadSucceeded == m_cardData.status = STATUS_OK

\* handleDetectedCard: if (m_cardData.status == STATUS_OK) networkConn();
AfterRead ==
    /\ pc = "after_read"
    /\ pc' = IF ReadSucceeded THEN "net_send" ELSE "after_net"
    /\ cyc' = [cyc EXCEPT !.readOK = (m_cardData.status = STATUS_OK)]
    /\ Main("handleDetectedCard")
    /\ UNCHANGED <<bootVars, dispVars, authVars, loopVars, tapVars>>
    /\ UNCHANGED <<onInterrupt, uid, m_blockAuth, m_cardData, m_PiccKeyB, lastReq, readySent>>
    /\ UNCHANGED <<linkVars, envVars, bridgeVars>>
    /\ UNCHANGED backendVars


(***************************************************************************)
(* Transmitter::networkConn.                                               *)
(***************************************************************************)
\* Default status, setStatusMsg(Network), pack the 67-byte request, drain
\* Serial1, write the request.
NetSend ==
    /\ pc = "net_send"
    /\ pc' = "net_wait"
    /\ m_cardData' = [m_cardData EXCEPT !.status = STATUS_ERROR]
    /\ m_state' = "Network"
    /\ m_detailsMsg' = "Initiating network connection!"
    /\ LET txData == TrustKeyFrame(uid, m_cardData.readData)
       IN  /\ tx' = Enqueue(tx, txData, TxCap)
           /\ lastReq' = [bytes |-> txData, uidSize |-> uid.size, uidByte |-> uid.uidByte,
                          devId |-> DEVICE_ID, payload |-> m_cardData.readData]
    /\ rx' = Drain(rx)
    /\ cyc' = [cyc EXCEPT !.netRan = TRUE, !.reqs67 = Sat(@)]
    /\ Main("Serial1.write")
    /\ UNCHANGED <<bootVars, authVars, loopVars, tapVars>>
    /\ UNCHANGED <<onInterrupt, uid, m_blockAuth, m_PiccKeyB, readySent>>
    /\ served' = NoServe
    /\ UNCHANGED <<envVars, bpc, bbuf>>
    /\ UNCHANGED backendVars

\* The response check of networkConn on txData after bytesRead bytes were read.
\* (ResponseOKAnyDevice: the check without the comparison of the device ID.)
ResponseOKAnyDevice(txData, bytesRead) == bytesRead = TrustKeySize
ResponseOK(txData, bytesRead) ==
    /\ bytesRead = TrustKeySize
    /\ MemEq(SubSeq(txData, DeviceIdEchoOffset + 1, DeviceIdEchoOffset + Len(DEVICE_ID)),
             DEVICE_ID, Len(DEVICE_ID))

\* delay, Serial1.readBytes(txData, TrustKeySize) and the response check.
NetRecv ==
    /\ pc = "net_wait"
    /\ pc' = "after_net"
    /\ Unanswered => splits < MaxSplits
    /\ \E k \in ReplyCounts(TrustKeySize, rx) :
        LET txData == MemCpy(lastReq.bytes, rx, k)
        IN  /\ rx' = Drop(rx, k)
            /\ splits' = splits + Split(TrustKeySize, rx, k) + TimedOut
            /\ cyc' = [cyc EXCEPT !.netSilent = (k = 0)]
            /\ IF ResponseOK(txData, k)
                 THEN /\ m_detailsMsg' = "Network connection was successful!"
                      /\ m_cardData' = [status |-> STATUS_OK,
                                        readData |-> SubSeq(txData, 1, TrustKeySize)]
                 ELSE /\ m_detailsMsg' = "Network connectivity failed!"
                      /\ UNCHANGED m_cardData
    /\ Main("Serial1.readBytes")
    /\ UNCHANGED <<bootVars, authVars, loopVars, tapVars, m_state>>
    /\ lastReq' = NoReq
    /\ UNCHANGED <<onInterrupt, uid, m_blockAuth, m_PiccKeyB, readySent>>
    /\ UNCHANGED <<tx, tag, tagState, faults, cycles, mem, bridgeVars>>
    /\ UNCHANGED backendVars

\* handleDetectedCard: the test guarding writePICC().
\* (NetSucceededIgnored: writePICC called whatever the earlier stages returned.)
NetSucceededIgnored == TRUE
NetSucceeded == m_cardData.status = STATUS_OK

\* handleDetectedCard: if (m_cardData.status == STATUS_OK) writePICC();
AfterNet ==
    /\ pc = "after_net"
    /\ pc' = IF NetSucceeded THEN "wr_start" ELSE "after_write"
    /\ cyc' = [cyc EXCEPT !.netOK = (cyc.netRan /\ m_cardData.status = STATUS_OK)]
    /\ Main("handleDetectedCard")
    /\ UNCHANGED <<bootVars, dispVars, authVars, loopVars, tapVars>>
    /\ UNCHANGED <<onInterrupt, uid, m_blockAuth, m_cardData, m_PiccKeyB, lastReq, readySent>>
    /\ UNCHANGED <<linkVars, envVars, bridgeVars>>
    /\ UNCHANGED backendVars

(***************************************************************************)
(* Transmitter::writePICC and setUidBasedKey.                              *)
(***************************************************************************)
\* writePICC: byte addr {m_blockAuth.block0Addr};
\* (WriteStartAddrBlock2: the loop started at the block-2 address.)
WriteStartAddrBlock2(auth) == auth.block0Addr + 2
WriteStartAddr(auth) == auth.block0Addr

\* writePICC: setStatusMsg(WriteTag) and the loop variables.
WrStart ==
    /\ pc = "wr_start"
    /\ pc' = "wr_block"
    /\ m_state' = "WriteTag"
    /\ m_detailsMsg' = "Initiating tag writing operation!"
    /\ startBlock' = 0
    /\ addr' = WriteStartAddr(m_blockAuth)
    /\ cyc' = [cyc EXCEPT !.writeRan = TRUE]
    /\ Main("writePICC")
    /\ UNCHANGED <<bootVars, authVars, tapVars>>
    /\ UNCHANGED <<onInterrupt, uid, m_blockAuth, m_cardData, m_PiccKeyB, lastReq, readySent>>
    /\ UNCHANGED <<linkVars, envVars, bridgeVars>>
    /\ UNCHANGED backendVars

\* writePICC: memcpy(buffer, m_cardData.readData + startBlock * blockSize, blockSize)
\* (WriteBufferFirst: every block written from the start of readData.)
WriteBufferFirst(readData, sb) == SubSeq(readData, 1, blockSize)
WriteBuffer(readData, sb) == SubSeq(readData, sb * blockSize + 1, (sb + 1) * blockSize)

\* One evaluation of writePICC's block loop.
WrBlock ==
    /\ pc = "wr_block"
    /\ IF ~(startBlock < TrustKeySize \div blockSize /\ addr < maxBlockNo)
         THEN /\ pc' = "wr_end"
              /\ UNCHANGED <<m_cardData, startBlock, addr, cyc, tagState, mem>>
         ELSE IF IsTrailer(addr)
           THEN /\ addr' = addr + 1
                /\ pc' = "wr_block"
                /\ UNCHANGED <<m_cardData, startBlock, cyc, tagState, mem>>
           ELSE \E writeOK \in IF Active(tagState) THEN BOOLEAN ELSE {FALSE} :
                  LET buf == WriteBuffer(m_cardData.readData, startBlock)
                  IN  /\ startBlock' = startBlock + 1
                      /\ tagState' = IF writeOK THEN tagState ELSE Dropped(tagState)
                      /\ IF writeOK
                           THEN /\ m_cardData' = [m_cardData EXCEPT !.status = STATUS_OK]
                                /\ mem' = Stored(mem, addr, buf)
                                /\ cyc' = [cyc EXCEPT
                                             !.dataWrites = Sat(@),
                                             !.blocksWritten = Append(@, [a |-> addr, d |-> buf])]
                                /\ addr' = addr + 1
                                /\ pc' = "wr_block"
                           ELSE /\ m_cardData' = [m_cardData EXCEPT !.status = STATUS_ERROR]
                                /\ cyc' = [cyc EXCEPT !.dataWrites = Sat(@)]
                                /\ pc' = "wr_end"
                                /\ UNCHANGED <<addr, mem>>
    /\ Main("writePICC")
    /\ UNCHANGED <<bootVars, dispVars, authVars, tapVars>>
    /\ UNCHANGED <<onInterrupt, uid, m_blockAuth, m_PiccKeyB, lastReq, readySent>>
    /\ UNCHANGED <<linkVars, tag, faults, splits, cycles, bridgeVars>>
    /\ UNCHANGED backendVars

WrEnd ==
    /\ pc = "wr_end"
    /\ pc' = "after_write"
    /\ m_detailsMsg' = IF m_cardData.status = STATUS_OK
                         THEN "Tag writing was successful!"
                         ELSE "Writing the tag failed. Try another tag!"
    /\ startBlock' = 0 /\ addr' = 0
    /\ Main("writePICC")
    /\ UNCHANGED <<bootVars, authVars, tapVars, m_state>>
    /\ UNCHANGED <<onInterrupt, uid, m_blockAuth, m_cardData, m_PiccKeyB, cyc, lastReq, readySent>>
    /\ UNCHANGED <<linkVars, envVars, bridgeVars>>
    /\ UNCHANGED backendVars

\* handleDetectedCard: #ifdef IS_TRUST_ORG
\*   if (m_cardData.status == STATUS_OK) m_cardData.status = setUidBasedKey();
AfterWrite ==
    /\ pc = "after_write"
    /\ pc' = IF mode = "TrustIssuer" /\ m_cardData.status = STATUS_OK
               THEN "upgrade" ELSE "clean_ack"
    /\ Main("handleDetectedCard")
    /\ UNCHANGED <<bootVars, dispVars, authVars, loopVars, tapVars>>
    /\ UNCHANGED <<onInterrupt, uid, m_blockAuth, m_cardData, m_PiccKeyB, cyc, lastReq, readySent>>
    /\ UNCHANGED <<linkVars, envVars, bridgeVars>>
    /\ UNCHANGED backendVars

\* setUidBasedKey: the sector trailer written, Settings::KeyA, the access
\* bits, the general purpose byte and KeyB.
\* (KeyBufferSwapped: the two keys in each other's place.)
KeyBufferSwapped(keyB) == keyB \o AccessBits \o <<0>> \o KeyA
KeyBuffer(keyB) == KeyA \o AccessBits \o <<0>> \o keyB

\* setUidBasedKey: sectorTrailer = block0Addr + sectorBlocks - 1 as a byte.
\* (SectorTrailerNext: the first block of the next sector.)
SectorTrailerNext(block0Addr) == (block0Addr + sectorBlocks) % 256
SectorTrailer(block0Addr) == (block0Addr + sectorBlocks - 1) % 256

\* setUidBasedKey: for a new card authenticate and write the sector trailer;
\* the returned status becomes m_cardData.status.
SetUidBasedKey ==
    /\ pc = "upgrade"
    /\ pc' = "clean_ack"
    /\ IF m_blockAuth.isCardNew
         THEN \E authOK \in IF Active(tagState) THEN BOOLEAN ELSE {FALSE},
                 writeOK \in IF Active(tagState) THEN BOOLEAN ELSE {FALSE} :
                IF authOK /\ writeOK
                  THEN /\ m_cardData' = [m_cardData EXCEPT !.status = STATUS_OK]
                       /\ m_detailsMsg' = "Upgrading key config was successful!"
                       /\ mem' = Stored(mem, SectorTrailer(m_blockAuth.block0Addr),
                                        KeyBuffer(m_PiccKeyB))
                       /\ cyc' = [cyc EXCEPT
                                    !.upgradeRan = TRUE,
                                    !.trailerWrites =
                                        Append(@, [a |-> SectorTrailer(m_blockAuth.block0Addr),
                                                   d |-> KeyBuffer(m_PiccKeyB)])]
                       /\ UNCHANGED tagState
                  ELSE /\ m_cardData' = [m_cardData EXCEPT !.status = STATUS_ERROR]
                       /\ m_detailsMsg' = "Upgrading key config failed!"
                       /\ tagState' = Dropped(tagState)
                       /\ cyc' = [cyc EXCEPT !.upgradeRan = TRUE]
                       /\ UNCHANGED mem
         ELSE /\ m_cardData' = [m_cardData EXCEPT !.status = STATUS_ERROR]
              /\ cyc' = [cyc EXCEPT !.upgradeRan = TRUE]
              /\ UNCHANGED <<m_detailsMsg, tagState, mem>>
    /\ Main("setUidBasedKey")
    /\ UNCHANGED <<bootVars, authVars, loopVars, tapVars, m_state>>
    /\ UNCHANGED <<onInterrupt, uid, m_blockAuth, m_PiccKeyB, lastReq, readySent>>
    /\ UNCHANGED <<linkVars, tag, faults, splits, cycles, bridgeVars>>
    /\ UNCHANGED backendVars

(***************************************************************************)
(* Transmitter::cleanUpAfterCardOps and the end of handleDetectedCard.     *)
(***************************************************************************)
\* delay(AUTH_DELAY); resetInterrupt(): PCD_WriteRegister(ComIrqReg, handledInterrupt)
CleanAck ==
    /\ pc = "clean_ack"
    /\ pc' = "clean_clear"
    /\ cyc' = [cyc EXCEPT !.acks = Sat(@)]
    /\ Main("resetInterrupt")
    /\ UNCHANGED <<bootVars, dispVars, authVars, loopVars, tapVars>>
    /\ UNCHANGED <<onInterrupt, uid, m_blockAuth, m_cardData, m_PiccKeyB, lastReq, readySent>>
    /\ UNCHANGED <<linkVars, envVars, bridgeVars>>
    /\ UNCHANGED backendVars

\* onInterrupt = false;
CleanClear ==
    /\ pc = "clean_clear"
    /\ pc' = "clean_halt"
    /\ onInterrupt' = FALSE
    /\ cyc' = [cyc EXCEPT !.clears = Sat(@)]
    /\ Main("clearFlag")
    /\ UNCHANGED <<bootVars, dispVars, authVars, loopVars, tapVars>>
    /\ UNCHANGED <<uid, m_blockAuth, m_cardData, m_PiccKeyB, lastReq, readySent>>
    /\ UNCHANGED <<linkVars, envVars, bridgeVars>>
    /\ UNCHANGED backendVars

\* m_rc522.PICC_HaltA(); m_rc522.PCD_StopCrypto1();  (results not used)
CleanHalt ==
    /\ pc = "clean_halt"
    /\ pc' = "hdc_standby"
    /\ \E ok \in IF Active(tagState) THEN BOOLEAN ELSE {FALSE} :
        tagState' = IF ok THEN "HALT" ELSE tagState
    /\ cyc' = [cyc EXCEPT !.halts = Sat(@)]
    /\ Main("PICC_HaltA")
    /\ UNCHANGED <<bootVars, dispVars, authVars, loopVars, tapVars>>
    /\ UNCHANGED <<onInterrupt, uid, m_blockAuth, m_cardData, m_PiccKeyB, lastReq, readySent>>
    /\ UNCHANGED <<linkVars, tag, faults, splits, cycles, mem, bridgeVars>>
    /\ UNCHANGED backendVars

\* handleDetectedCard: the state set before it returns.
\* (ReturnStateKept: the return without the call of setStatusMsg.)
ReturnStateKept == m_state
ReturnState == "StandBy"

\* handleDetectedCard: setStatusMsg(StandBy) and return to the loop.
HdcStandby ==
    /\ pc = "hdc_standby"
    /\ pc' = "delay"
    /\ m_state' = ReturnState
    /\ cyc' = [cyc EXCEPT !.returned = TRUE]
    /\ Main("setStatusMsg")
    /\ UNCHANGED <<bootVars, authVars, loopVars, tapVars, m_detailsMsg>>
    /\ UNCHANGED <<onInterrupt, uid, m_blockAuth, m_cardData, m_PiccKeyB, lastReq, readySent>>
    /\ UNCHANGED <<linkVars, envVars, bridgeVars>>
    /\ UNCHANGED backendVars

(***************************************************************************)
(* The environment: a tag enters or leaves the field (one tap).            *)
(***************************************************************************)
TagEnter ==
    /\ isrAttached
    /\ tag = NoTag
    /\ tag' \in FieldTags
    /\ tagState' = "IDLE"
    /\ tapCycles' = 0
    /\ UNCHANGED <<devVars, linkVars, faults, splits, cycles, mem, bridgeVars>>
    /\ UNCHANGED <<mainOp, cyc, lastReq, readySent>>
    /\ UNCHANGED backendVars

TagLeave ==
    /\ tag # NoTag
    /\ tag' = NoTag
    /\ tagState' = "IDLE"
    /\ mem' = NoMem
    /\ tapCycles' = 0
    /\ UNCHANGED <<devVars, linkVars, faults, splits, cycles, bridgeVars>>
    /\ UNCHANGED <<mainOp, cyc, lastReq, readySent>>
    /\ UNCHANGED backendVars

(***************************************************************************)
(* The bridge (wifi-module): boot handshake and request relay.             *)
(***************************************************************************)
\* establishConnection: station mode connects, or the configuration server
\* loop is entered and never left.
BridgeConnect ==
    /\ bpc = "boot"
    /\ \E connected \in BOOLEAN : bpc' = IF connected THEN "ack_wait" ELSE "config_server"
    /\ UNCHANGED <<devVars, linkVars, envVars, bbuf, served>>
    /\ UNCHANGED <<mainOp, cyc, lastReq, tapCycles, readySent>>
    /\ UNCHANGED backendVars

IsAck(buf) == MemEq(ACK_SIGNAL, buf, ACK_SIGNAL_SIZE - 1)

\* setup: Serial.readBytes(buffer, ACK_SIGNAL_SIZE); on "ACK" write READY.
BridgeAckRead ==
    /\ bpc = "ack_wait"
    /\ \E k \in ReadCounts(ACK_SIGNAL_SIZE, tx) :
        /\ bbuf' = MemCpy(bbuf, tx, k)
        /\ tx' = Drop(tx, k)
        /\ splits' = splits + Split(ACK_SIGNAL_SIZE, tx, k)
    /\ IF IsAck(bbuf')
         THEN /\ rx' = Enqueue(rx, READY_SIGNAL, RxCap)
              /\ readySent' = TRUE
              /\ bpc' = "drain"
         ELSE /\ UNCHANGED <<rx, readySent>>
              /\ bpc' = "ack_wait"
    /\ UNCHANGED <<devVars, tag, tagState, faults, cycles, mem, served>>
    /\ UNCHANGED <<mainOp, cyc, lastReq, tapCycles>>
    /\ UNCHANGED backendVars

\* setup: while(Serial.available() > 0) Serial.read();
BridgeDrain ==
    /\ bpc = "drain"
    /\ bpc' = "serve"
    /\ tx' = <<>>
    /\ UNCHANGED <<devVars, rx, envVars, bbuf, served>>
    /\ UNCHANGED <<mainOp, cyc, lastReq, tapCycles, readySent>>
    /\ UNCHANGED backendVars

\* handleEvents, switch(readBytes): the sizes passed on with isValidSize true.
\* (IsValidSizeAtLeast: a test for a minimum size.)
IsValidSizeAtLeast(readBytes) == readBytes >= SecretKeyAuthDataSize
IsValidSize(readBytes) ==
    readBytes \in {SecretKeyAuthDataSize, TrustKeyAuthDataSize}

\* The bodies the backend can answer a posted request of readBytes bytes with.
BackendBodies(readBytes) ==
    IF readBytes = SecretKeyAuthDataSize THEN Bodies35 ELSE Bodies67

\* handleHttpEvents: httpErrorCode for a return value of http.POST.
HttpErrorCode(httpCode) ==
    IF httpCode < 0 THEN HTTP_CLIENT_ERROR ELSE HTTP_SERVER_ERROR

\* handleHttpEvents: what is written to Serial for httpCode and the body:
\* Serial.write(http.getString().c_str()) or Serial.write(httpErrorCode).
SerialWritten(httpCode, body) ==
    IF httpCode = HTTP_CODE_OK THEN CStr(body) ELSE <<HttpErrorCode(httpCode)>>

\* The outcomes of handleHttpEvents(readBytes, isValidSize): without a valid
\* size no POST is made and httpCode stays INVALID_BUFFER_SIZE.
HttpOutcomes(readBytes) ==
    IF IsValidSize(readBytes)
      THEN {[n |-> readBytes, post |-> TRUE, code |-> c,
             body |-> IF c = HTTP_CODE_OK THEN b ELSE <<>>,
             written |-> SerialWritten(c, b)]
            : c \in HttpCodes, b \in BackendBodies(readBytes)}
      ELSE {[n |-> readBytes, post |-> FALSE, code |-> INVALID_BUFFER_SIZE,
             body |-> <<>>, written |-> SerialWritten(INVALID_BUFFER_SIZE, <<>>)]}

\* What handleHttpEvents writes back for a request of readBytes bytes.
BridgeReplies(readBytes) == {o.written : o \in HttpOutcomes(readBytes)}

\* loop: handleEvents reads a request and relays the backend's answer.
BridgeServe ==
    /\ bpc = "serve"
    /\ Len(tx) > 0
    /\ LET readBytes == Min(MaxReqSize, Len(tx))
       IN  /\ tx' = Drop(tx, readBytes)
           /\ \E o \in HttpOutcomes(readBytes) :
                /\ rx' = Enqueue(rx, o.written, RxCap)
                /\ served' = o
    /\ UNCHANGED <<devVars, envVars, bpc, bbuf>>
    /\ UNCHANGED <<mainOp, cyc, lastReq, tapCycles, readySent>>
    /\ UNCHANGED backendVars

(***************************************************************************)
(* Specification.                                                          *)
(***************************************************************************)
DeviceStep ==
    \/ EnterLoading \/ HsWriteAck \/ HsRead \/ AttachInterrupt \/ WaitEdge
    \/ EnableInterrupts \/ StartupClear \/ EnterStandBy
    \/ LoopCheck \/ ActCheck \/ ActWrite \/ TimerDelay
    \/ HdcSelect \/ RdStart \/ AttemptBlock2Auth \/ RdPack \/ RdSecret
    \/ RdBlock \/ RdEnd \/ AfterRead \/ NetSend \/ NetRecv \/ AfterNet
    \/ WrStart \/ WrBlock \/ WrEnd \/ AfterWrite \/ SetUidBasedKey
    \/ CleanAck \/ CleanClear \/ CleanHalt \/ HdcStandby

BridgeStep == BridgeConnect \/ BridgeAckRead \/ BridgeDrain \/ BridgeServe

Next == DeviceStep \/ handleInterrupt \/ TagEnter \/ TagLeave \/ BridgeStep

Spec == Init /\ [][Next]_vars

\* The boot phase: handshake with the bridge and interrupt arming, up to the
\* entry of the polling loop.
BootStep ==
    \/ EnterLoading \/ HsWriteAck \/ HsRead \/ AttachInterrupt \/ WaitEdge
    \/ EnableInterrupts \/ StartupClear \/ EnterStandBy

NextBoot == BootStep \/ handleInterrupt \/ BridgeStep

SpecBoot == Init /\ [][NextBoot]_vars

\* The boot phase with both processors running: main's handshake loop never
\* blocks (every Serial1.readBytes returns at its timeout at the latest) and
\* neither does the bridge's setup loop, so each keeps taking steps.
SpecBootFair == SpecBoot /\ WF_vars(BootStep) /\ WF_vars(BridgeStep)

\* The run phase: from the end of the handshake (READY read, link empty,
\* bridge serving) through interrupt arming into the polling loop.
InitRun ==
    /\ mode \in {"Standard", "TrustIssuer"}
    /\ pc = "hs_done"
    /\ onInterrupt = FALSE
    /\ m_state = "Loading"
    /\ m_detailsMsg = "WiFi and devices configuration in progress"
    /\ buffer = READY_SIGNAL \o <<0>>
    /\ uid \in [size : {0}, uidByte : GarbageUids]
    /\ m_blockAuth = [block0Addr |-> 0, isCardNew |-> FALSE, status |-> STATUS_OK,
                      authKeyA |-> Fill(MF_KEY_SIZE, 0), block2Data |-> Fill(blockSize, 0)]
    /\ m_cardData = [status |-> STATUS_OK, readData |-> Fill(TrustKeySize, 0)]
    /\ m_PiccKeyB \in GarbageKeys
    /\ key = 0
    /\ startBlock = 0
    /\ addr = 0
    /\ isrAttached = FALSE
    /\ comIEnReg = FALSE
    /\ tx = <<>>
    /\ rx = <<>>
    /\ tag = NoTag
    /\ tagState = "IDLE"
    /\ faults = 0
    /\ splits = 0
    /\ cycles = 0
    /\ mem = NoMem
    /\ bpc = "serve"
    /\ bbuf = ACK_SIGNAL \o <<0>>
    /\ served = NoServe
    /\ mainOp = "Serial1.readBytes"
    /\ cyc = NoCycle
    /\ lastReq = NoReq
    /\ tapCycles = 0
    /\ readySent = TRUE
    /\ InitTables

RunStep ==
    \/ AttachInterrupt \/ WaitEdge \/ EnableInterrupts \/ StartupClear \/ EnterStandBy
    \/ LoopCheck \/ ActCheck \/ ActWrite \/ TimerDelay
    \/ HdcSelect \/ RdStart \/ AttemptBlock2Auth \/ RdPack \/ RdSecret
    \/ RdBlock \/ RdEnd \/ AfterRead \/ NetSend \/ NetRecv \/ AfterNet
    \/ WrStart \/ WrBlock \/ WrEnd \/ AfterWrite \/ SetUidBasedKey
    \/ CleanAck \/ CleanClear \/ CleanHalt \/ HdcStandby

NextRun == RunStep \/ handleInterrupt \/ TagEnter \/ TagLeave \/ BridgeServe

SpecRun == InitRun /\ [][NextRun]_vars

\* One call of handleDetectedCard: the interrupt flag is set and a tag is
\* in the field when the polling loop calls it; the call runs to its return.
InitCall(c) ==
    /\ mode \in {"Standard", "TrustIssuer"}
    /\ pc = "hdc_select"
    /\ onInterrupt = TRUE
    /\ m_state = "StandBy"
    /\ m_detailsMsg = "The weather today is too cold for me (:!"
    /\ buffer = READY_SIGNAL \o <<0>>
    /\ uid \in [size : {0}, uidByte : GarbageUids]
    /\ m_blockAuth = [block0Addr |-> 0, isCardNew |-> FALSE, status |-> STATUS_OK,
                      authKeyA |-> Fill(MF_KEY_SIZE, 0), block2Data |-> Fill(blockSize, 0)]
    /\ m_cardData = [status |-> STATUS_OK, readData |-> Fill(TrustKeySize, 0)]
    /\ m_PiccKeyB \in GarbageKeys
    /\ key = 0
    /\ startBlock = 0
    /\ addr = 0
    /\ isrAttached = TRUE
    /\ comIEnReg = TRUE
    /\ tx = <<>>
    /\ rx = <<>>
    /\ tag \in TagIds
    /\ tagState = "IDLE"
    /\ faults = 0
    /\ splits = 0
    /\ cycles = c
    /\ mem = NoMem
    /\ bpc = "serve"
    /\ bbuf = ACK_SIGNAL \o <<0>>
    /\ served = NoServe
    /\ mainOp = "loopCheck"
    /\ cyc = NoCycle
    /\ lastReq = NoReq
    /\ tapCycles = 0
    /\ readySent = TRUE
    /\ InitTables

InitCycle == InitCall(0)

CycleStep ==
    \/ HdcSelect \/ RdStart \/ AttemptBlock2Auth \/ RdPack \/ RdSecret
    \/ RdBlock \/ RdEnd \/ AfterRead \/ NetSend \/ NetRecv \/ AfterNet
    \/ WrStart \/ WrBlock \/ WrEnd \/ AfterWrite \/ SetUidBasedKey
    \/ CleanAck \/ CleanClear \/ CleanHalt \/ HdcStandby

NextCycle == CycleStep \/ handleInterrupt \/ TagLeave \/ BridgeServe

SpecCycle == InitCycle /\ [][NextCycle]_vars

\* The polling loop around handleDetectedCard while one tag is in the field
\* and answers one more select. The main context always takes its next step,
\* and the bridge, whose loop polls the serial link, answers a pending request.
LoopStep == LoopCheck \/ ActCheck \/ ActWrite \/ TimerDelay

InitPoll == InitCall(MaxCycles - 1)

NextPoll == LoopStep \/ CycleStep \/ handleInterrupt \/ TagLeave \/ BridgeServe

SpecPoll ==
    /\ InitPoll /\ [][NextPoll]_vars
    /\ WF_vars(LoopStep \/ CycleStep) /\ WF_vars(BridgeServe)

(***************************************************************************)
(* The backend, TOrg/index.php.  A hex string is the sequence of its hex   *)
(* digits 0..15: the hashes upper-case their argument and the tables       *)
(* compare case-insensitively.  A hash is its argument behind a marker.    *)
(* The SELECT statements are taken to succeed; an INSERT may fail.         *)
(***************************************************************************)
bin2hex(bytes) ==
    [i \in 1..2 * Len(bytes) |->
        IF i % 2 = 1 THEN bytes[(i + 1) \div 2] \div 16 ELSE bytes[i \div 2] % 16]
hex2bin(hex) ==
    [i \in 1..Len(hex) \div 2 |-> 16 * hex[2 * i - 1] + hex[2 * i]]

trustOrgId == bin2hex(TrustOrgId)
default_block2data_salt == <<-3>>
default_trustkey_salt == <<-4>>
md5hash(data) == <<-1>> \o data
sha256hash(data) == <<-2>> \o data

\* devicesTable: the trust organisation's own reader is registered.
devicesTable == {[device_id |-> bin2hex(DEVICE_ID), is_trust_org |-> 1]}

\* findDevice: $isTrustOrgMode; the function itself returns true whenever
\* the query ran, whether or not it found a row.
findDevice(PCD_uid) ==
    \E d \in devicesTable : d.device_id = PCD_uid /\ d.is_trust_org = 1

\* sha256hash(random_bytes(8) . $old_trustkey): some 64-digit hex string.
IssuedTrustKeys == {bin2hex(NewTrustKey), bin2hex(ZeroTrustKey)}

\* insertTrustKey on table t, the INSERT succeeding or not: the table after
\* it and the value returned.
\* (insertTrustKeyReplacing: the newest row of the secret key overwritten.)
insertTrustKeyReplacing(t, new_block2data, new_trustkey, deviceUid, secretKeyId, ok) ==
    LET row == [hashed_blockdata |-> new_block2data, rolling_pass |-> new_trustkey,
                secret_key_id |-> secretKeyId]
        old == {i \in 1..Len(t) : t[i].secret_key_id = secretKeyId}
        last == CHOOSE i \in old : \A j \in old : j <= i
    IN  IF ok
          THEN [table |-> IF old = {} THEN Append(t, row) ELSE [t EXCEPT ![last] = row],
                out |-> hex2bin(new_trustkey) \o hex2bin(trustOrgId) \o hex2bin(deviceUid)]
          ELSE [table |-> t, out |-> <<>>]
insertTrustKey(t, new_block2data, new_trustkey, deviceUid, secretKeyId, ok) ==
    LET row == [hashed_blockdata |-> new_block2data, rolling_pass |-> new_trustkey,
                secret_key_id |-> secretKeyId]
    IN  IF ok
          THEN [table |-> Append(t, row),
                out |-> hex2bin(new_trustkey) \o hex2bin(trustOrgId) \o hex2bin(deviceUid)]
          ELSE [table |-> t, out |-> <<>>]

\* The ids of secretKeysTable rows of a hashed tag UID (the column is unique).
SecretKeyIds(hashed_tag_uid) ==
    {i \in 1..Len(secretKeysTable) : secretKeysTable[i].hashed_tag_uid = hashed_tag_uid}

\* The WHERE clause of the trust-key query on row m of rollingPasswordTable.
Matches(m, hashed_tag_uid, old_block2data, old_trustkey) ==
    /\ rollingPasswordTable[m].secret_key_id \in SecretKeyIds(hashed_tag_uid)
    /\ rollingPasswordTable[m].hashed_blockdata \in
           {old_block2data, md5hash(default_block2data_salt \o hashed_tag_uid)}
    /\ rollingPasswordTable[m].rolling_pass \in
           {sha256hash(default_trustkey_salt \o hashed_tag_uid), old_trustkey}

\* Data packing: $PCD_uid and $hashed_tag_uid of a request body.
PcdUid(bin_in) == IF Len(bin_in) >= 19 THEN bin2hex(SubSeq(bin_in, 12, 19)) ELSE <<>>
HashedTagUid(bin_in) ==
    IF Len(bin_in) >= 19
      THEN md5hash(bin2hex(SubSeq(bin_in, 2, Min(1 + bin_in[1], Len(bin_in)))))
      ELSE <<>>

\* The request bodies the readers send: both frames for each tag, the
\* 67-byte one carrying the tag's factory contents or a credential issued by
\* the backend; and a body of another length.
TagUids == {Selected([size |-> 0, uidByte |-> Fill(UidBufSize, 0)], t) : t \in FieldTags}
Credentials ==
    {TagBlock(t, 4) \o TagBlock(t, 5) \o TagBlock(t, 6) : t \in FieldTags}
        \cup {hex2bin(k) \o TrustOrgId \o DEVICE_ID : k \in IssuedTrustKeys}
Requests ==
    {SecretKeyFrame(u, DeviceIdBuff(m), TagBlock(1, 6)) :
        u \in TagUids, m \in {"Standard", "TrustIssuer"}}
        \cup {TrustKeyFrame(u, c) : u \in TagUids, c \in Credentials}
        \cup {ACK_SIGNAL}

\* "Hacking Attempt!"
HackingAttempt ==
    <<72, 97, 99, 107, 105, 110, 103, 32, 65, 116, 116, 101, 109, 112, 116, 33>>

\* The POST branch of index.php on body bin_in; the query of findDevice
\* fails (the body is then emptied and no branch runs) or runs; okKey and
\* okRow tell whether
\* the INSERT into secretKeysTable and into rollingPasswordTable succeed,
\* secret_key and new_trustkey are the values drawn from random_bytes.
Post ==
    /\ Len(rollingPasswordTable) < MaxRows
    /\ \E bin_in \in Requests :
      \/ /\ bin_input' = <<>>
         /\ bin_response' = HackingAttempt
         /\ UNCHANGED <<secretKeysTable, rollingPasswordTable>>
      \/
        LET PCD_uid == PcdUid(bin_in)
            hashed_tag_uid == HashedTagUid(bin_in)
            isTrustOrgMode == findDevice(PCD_uid)
            default_block2data == md5hash(default_block2data_salt \o hashed_tag_uid)
            default_trustkey == sha256hash(default_trustkey_salt \o hashed_tag_uid)
            ids == SecretKeyIds(hashed_tag_uid)
        IN  /\ bin_input' = bin_in
            /\ IF Len(bin_in) = SecretKeyAuthDataSize
                 THEN IF ids # {}
                        THEN /\ bin_response' =
                                    hex2bin(secretKeysTable[CHOOSE i \in ids : TRUE].secret_key)
                             /\ UNCHANGED <<secretKeysTable, rollingPasswordTable>>
                        ELSE IF isTrustOrgMode
                          THEN \E okKey, okRow \in BOOLEAN,
                                  secret_key \in {bin2hex(k) : k \in SecretKeys} :
                               LET secret_key_id == IF okKey THEN Len(secretKeysTable) + 1 ELSE 0
                                   ins == insertTrustKey(rollingPasswordTable, default_block2data,
                                                         default_trustkey, PCD_uid, secret_key_id,
                                                         okRow /\ okKey)
                               IN  /\ secretKeysTable' =
                                          IF okKey
                                            THEN Append(secretKeysTable,
                                                        [hashed_tag_uid |-> hashed_tag_uid,
                                                         secret_key |-> secret_key])
                                            ELSE secretKeysTable
                                   /\ rollingPasswordTable' = ins.table
                                   /\ bin_response' = IF okKey THEN hex2bin(secret_key)
                                                               ELSE MalformedReply \o <<53>>
                          ELSE /\ bin_response' = MalformedReply \o <<53>>
                               /\ UNCHANGED <<secretKeysTable, rollingPasswordTable>>
                 ELSE IF Len(bin_in) = TrustKeyAuthDataSize
                   THEN LET old_trustkey == bin2hex(SubSeq(bin_in, 20, 51))
                            old_block2data == md5hash(bin2hex(SubSeq(bin_in, 52, 67)))
                            found == {m \in 1..Len(rollingPasswordTable) :
                                         Matches(m, hashed_tag_uid, old_block2data, old_trustkey)}
                            newest == CHOOSE m \in found : \A n \in found : n <= m
                        IN  IF found # {}
                              THEN \E okRow \in BOOLEAN, new_trustkey \in IssuedTrustKeys :
                                   LET ins == insertTrustKey(
                                                  rollingPasswordTable,
                                                  md5hash(trustOrgId \o PCD_uid), new_trustkey,
                                                  PCD_uid,
                                                  rollingPasswordTable[newest].secret_key_id,
                                                  okRow)
                                   IN  /\ rollingPasswordTable' = ins.table
                                       /\ bin_response' = IF ins.out # <<>>
                                                            THEN ins.out
                                                            ELSE MalformedReply \o <<54>>
                                       /\ UNCHANGED secretKeysTable
                              ELSE /\ bin_response' = MalformedReply \o <<54>>
                                   /\ UNCHANGED <<secretKeysTable, rollingPasswordTable>>
                   ELSE /\ bin_response' = <<>>
                        /\ UNCHANGED <<secretKeysTable, rollingPasswordTable>>
    /\ UNCHANGED <<devVars, linkVars, envVars, bridgeVars, histVars>>

\* The GET branch: a page of the table, newest first, each row's hashed
\* block data and the first and last ten digits of its rolling_pass.
Get ==
    /\ \E page \in 1..2 :
        LET offset == (page - 1) * 10
            n == Len(rollingPasswordTable)
            rows == [i \in 1..Min(20, IF n > offset THEN n - offset ELSE 0) |->
                        rollingPasswordTable[n - offset - i + 1]]
            Shown(i) == rows[i].hashed_blockdata \o Take(rows[i].rolling_pass, 10)
                            \o Drop(rows[i].rolling_pass,
                                    IF Len(rows[i].rolling_pass) > 10
                                      THEN Len(rows[i].rolling_pass) - 10 ELSE 0)
            Data[i \in 0..Len(rows)] == IF i = 0 THEN <<>> ELSE Data[i - 1] \o Shown(i)
        IN  bin_response' = <<page>> \o Data[Len(rows)]
    /\ bin_input' = <<>>
    /\ UNCHANGED <<secretKeysTable, rollingPasswordTable>>
    /\ UNCHANGED <<devVars, linkVars, envVars, bridgeVars, histVars>>

\* The backend serving requests, the readers at rest.
InitBackend ==
    /\ InitCall(0) /\ mode = "TrustIssuer" /\ tag = 1 /\ uid.uidByte = Fill(UidBufSize, 0)
NextBackend == Post \/ Get
SpecBackend == InitBackend /\ [][NextBackend]_vars


\* The key trial on its own: readPICC after its first statements, a tag
\* selected by handleDetectedCard, which may leave the field during the trial.
InitAuth ==
    /\ mode \in {"Standard", "TrustIssuer"}
    /\ pc = "auth"
    /\ onInterrupt = TRUE
    /\ m_state = "ReadTag"
    /\ m_detailsMsg = "Init authentication to validate key!"
    /\ buffer = READY_SIGNAL \o <<0>>
    /\ tag \in TagIds
    /\ \E g \in GarbageUids : uid = Selected([size |-> 0, uidByte |-> g], tag)
    /\ m_blockAuth = [block0Addr |-> 0, isCardNew |-> FALSE, status |-> STATUS_ERROR,
                      authKeyA |-> Fill(MF_KEY_SIZE, 0), block2Data |-> Fill(blockSize, 0)]
    /\ m_cardData = [status |-> STATUS_ERROR, readData |-> Fill(TrustKeySize, 0)]
    /\ m_PiccKeyB \in GarbageKeys
    /\ key = 0
    /\ startBlock = 0
    /\ addr = 0
    /\ isrAttached = TRUE
    /\ comIEnReg = TRUE
    /\ tx = <<>>
    /\ rx = <<>>
    /\ tagState = "ACTIVE"
    /\ faults = 0
    /\ splits = 0
    /\ cycles = 1
    /\ mem = NoMem
    /\ bpc = "serve"
    /\ bbuf = ACK_SIGNAL \o <<0>>
    /\ served = NoServe
    /\ mainOp = "readPICC"
    /\ cyc = [NoCycle EXCEPT !.selected = TRUE, !.readRan = TRUE]
    /\ lastReq = NoReq
    /\ tapCycles = 1
    /\ readySent = TRUE
    /\ InitTables

NextAuth == AttemptBlock2Auth \/ TagLeave

SpecAuth == InitAuth /\ [][NextAuth]_vars

\* Key derivation on its own: readPICC at the secret-key read, the bridge
\* having relayed a 6-byte secret key, for UIDs of 4, 7 and 10 bytes (the
\* bytes of uidByte after the UID are what an earlier select left there).
KeySeeds ==
    {Fill(MF_KEY_SIZE, 0), Fill(MF_KEY_SIZE, 255), <<1, 2, 3, 4, 5, 6>>, KeyA,
     <<218, 0, 255, 164, 1, 66>>}

KeyUidBytes ==
    {<<17, 34, 51, 68, 0, 0, 0, 0, 0, 0>>,
     <<17, 34, 51, 68, 179, 180, 181, 182, 183, 184>>,
     <<4, 255, 0, 129, 218, 145, 231, 0, 1, 2>>,
     <<4, 255, 0, 129, 218, 145, 77, 88, 99, 111>>}

InitDerive ==
    /\ mode \in {"Standard"}
    /\ pc = "rd_wait"
    /\ onInterrupt = TRUE
    /\ m_state = "ReadTag"
    /\ m_detailsMsg = "Init authentication to validate key!"
    /\ buffer = READY_SIGNAL \o <<0>>
    /\ uid \in [size : {4, 7, 10}, uidByte : KeyUidBytes]
    /\ m_blockAuth = [block0Addr |-> 4, isCardNew |-> FALSE, status |-> STATUS_OK,
                      authKeyA |-> KeyA, block2Data |-> TagBlock(1, 6)]
    /\ m_cardData = [status |-> STATUS_ERROR, readData |-> Fill(TrustKeySize, 0)]
    /\ m_PiccKeyB \in GarbageKeys
    /\ key = 0
    /\ startBlock = 0
    /\ addr = 0
    /\ isrAttached = TRUE
    /\ comIEnReg = TRUE
    /\ tx = <<>>
    /\ rx \in KeySeeds
    /\ tag = 1
    /\ tagState = "ACTIVE"
    /\ faults = 0
    /\ splits = 0
    /\ cycles = 1
    /\ mem = NoMem
    /\ bpc = "serve"
    /\ bbuf = ACK_SIGNAL \o <<0>>
    /\ served = [n |-> SecretKeyAuthDataSize, post |-> TRUE, code |-> HTTP_CODE_OK,
                 body |-> rx, written |-> rx]
    /\ mainOp = "Serial1.write"
    /\ cyc = [NoCycle EXCEPT !.selected = TRUE, !.readRan = TRUE,
                             !.authOK = TRUE, !.reqs35 = 1,
                             !.keysTried = <<[k |-> 0, ok |-> TRUE]>>,
                             !.okStride = 6]
    /\ lastReq = NoReq
    /\ tapCycles = 1
    /\ readySent = TRUE
    /\ InitTables

NextDerive == RdSecret

SpecDerive == InitDerive /\ [][NextDerive]_vars

TypeOK ==
    /\ mode \in {"Standard", "TrustIssuer"}
    /\ onInterrupt \in BOOLEAN
    /\ m_state \in MachineState
    /\ Len(buffer) = READY_SIGNAL_SIZE
    /\ Len(uid.uidByte) = UidBufSize
    /\ Len(m_cardData.readData) = TrustKeySize
    /\ Len(m_PiccKeyB) = MF_KEY_SIZE
    /\ Len(tx) <= TxCap
    /\ Len(rx) <= RxCap
    /\ tag \in {NoTag} \cup TagIds
    /\ tagState \in {"IDLE", "ACTIVE", "HALT"}
    /\ faults \in 0..MaxFaults
    /\ splits \in 0..MaxSplits
    /\ cycles \in 0..MaxCycles
    /\ DOMAIN mem \subseteq 0..maxBlockNo
    /\ \A a \in DOMAIN mem : Len(mem[a]) = blockSize
    /\ served.n \in 0..MaxReqSize

(***************************************************************************)
(* Properties.                                                             *)
(***************************************************************************)
\* C1: writePICC (state WriteTag, a write of a data block) runs only in a
\* cycle in which readPICC ended with status OK, after block-2
\* authentication and the secret-key request, and networkConn ended with
\* status OK after the trust-key request.
C1_WriteOnlyAfterReadAndNetwork ==
    (cyc.writeRan \/ cyc.dataWrites > 0 \/ m_state = "WriteTag"
       \/ pc \in {"wr_start", "wr_block", "wr_end"})
        => /\ cyc.authOK /\ cyc.readOK /\ cyc.reqs35 = 1
           /\ cyc.netRan /\ cyc.netOK /\ cyc.reqs67 = 1

C1_Witness ==
    /\ cyc.writeRan /\ cyc.dataWrites > 0 /\ m_state = "WriteTag"
    /\ cyc.readOK /\ cyc.netOK

\* C2: every call of handleDetectedCard that has returned ran
\* cleanUpAfterCardOps exactly once: one acknowledgement of ComIrqReg, one
\* clear of the flag, one PICC_HaltA, also when the first select failed.
C2_CleanupOncePerCall ==
    cyc.returned => (cyc.acks = 1 /\ cyc.clears = 1 /\ cyc.halts = 1)

\* C3: as long as block-2 authentication has not succeeded for any key in a
\* cycle, no request is written to the serial link, no data block is read or
\* written, and networkConn, writePICC and setUidBasedKey are not executed.
C3_NoStageAfterAuthFailure ==
    ~cyc.authOK =>
        /\ cyc.reqs35 = 0 /\ cyc.reqs67 = 0 /\ lastReq = NoReq
        /\ cyc.dataReads = 0 /\ cyc.dataWrites = 0
        /\ ~cyc.netRan /\ ~cyc.writeRan /\ ~cyc.upgradeRan
        /\ m_state \notin {"Network", "WriteTag"}

C3_Witness ==
    cyc.returned /\ cyc.readRan /\ ~cyc.authOK /\ cyc.acks = 1

\* C4: the main context clears onInterrupt only in the step directly after
\* the acknowledgement of ComIrqReg by resetInterrupt, and every such
\* acknowledgement is directly followed by the clear.
C4_ClearOnlyAfterAck ==
    [][ /\ (mainOp' = "clearFlag" /\ mainOp # "clearFlag") => mainOp = "resetInterrupt"
        /\ (mainOp = "resetInterrupt" /\ mainOp' # "resetInterrupt") => mainOp' = "clearFlag"
      ]_vars

\* C5: during one tap (from the tag's entry into the field to its removal)
\* readPICC is never started a second time, whatever edges the IRQ pin
\* raises and wherever they fall relative to the polling loop.
C5_OneCyclePerTap ==
    [][ tapCycles' <= 1 ]_vars

\* C6: handleInterrupt leaves the flag set and changes nothing else; a step
\* that sets the flag changes no other state (no tag, display or serial
\* I/O), and the flag is cleared only by the clear statements of the main
\* context.
C6_IsrOnlySetsFlag ==
    [][ /\ handleInterrupt => (onInterrupt' /\ UNCHANGED otherThanFlag)
        /\ (onInterrupt' /\ ~onInterrupt) => UNCHANGED otherThanFlag
        /\ (onInterrupt /\ ~onInterrupt') => (mainOp' = "clearFlag" /\ pc' # pc)
      ]_vars

C6_Witness ==
    onInterrupt /\ pc = "clean_halt" /\ mainOp = "clearFlag"

\* C7: when main goes on to enableInterrupts after the wait loop, an edge
\* has set onInterrupt.
C7_WaitsForFirstEdge ==
    pc = "enable_irq" => onInterrupt

\* C8: the device is past the handshake loop (Transmitter constructed,
\* handler attached, state no longer Loading) only if the bridge has sent
\* READY.
C8_LoadingUntilReady ==
    (pc \notin {"boot", "hs_write", "hs_read"} \/ isrAttached
       \/ m_state \notin {"BootUp", "Loading"}) => readySent

\* C9: the request the device has written is 35 bytes while readPICC waits
\* for the secret key and 67 bytes while networkConn waits for the trust
\* key, and no request is pending elsewhere; byte 0 is the UID size, the UID
\* starts at byte 1, the device-ID field is bytes 11..18 and the payload
\* (block-2 data, or the 48 bytes read from the tag) starts at byte 19.
C9_RequestFrameLayout ==
    LET f == lastReq.bytes IN
    /\ (lastReq # NoReq) <=> (pc \in {"rd_wait", "net_wait"})
    /\ pc = "rd_wait" =>
         /\ Len(f) = 35
         /\ SubSeq(f, 12, 19) = DeviceIdBuff(mode)
         /\ SubSeq(f, 20, 35) = m_blockAuth.block2Data
    /\ pc = "net_wait" =>
         /\ Len(f) = 67
         /\ SubSeq(f, 12, 19) = DEVICE_ID
         /\ SubSeq(f, 20, 67) = m_cardData.readData
    /\ lastReq # NoReq =>
         /\ f[1] = uid.size
         /\ \A i \in 1..uid.size : f[1 + i] = uid.uidByte[i]

C9_Witness ==
    /\ pc = "net_wait" /\ Len(lastReq.bytes) = 67 /\ uid.size = 4
    /\ m_cardData.readData # Fill(TrustKeySize, 0)

\* C10: in the request the device has written, the UID field bytes after
\* the first uid.size ones are zero.
C10_UidZeroPadded ==
    lastReq # NoReq =>
        \A i \in 1..UidBufSize : i > lastReq.uidSize => lastReq.bytes[1 + i] = 0

\* C11: handleEvents forwards a request to the backend (HTTP POST) only when
\* it read exactly 35 or exactly 67 bytes; for every other length no POST is
\* made and only the one-byte client error code is written back.
C11_ForwardOnlyValidSizes ==
    served # NoServe =>
        /\ served.post <=> served.n \in {35, 67}
        /\ ~served.post => /\ served.written = <<HTTP_CLIENT_ERROR>>
                           /\ served.body = <<>>

C11_Witness ==
    /\ served.n > 0 /\ served.n \notin {35, 67}
    /\ ~served.post /\ Len(served.written) = 1

\* C12: when the backend answers HTTP 200, the bytes the bridge writes to the
\* serial link are exactly the response body: same length, same bytes, same
\* order, whatever byte values the body holds.
C12_BodyRelayedVerbatim ==
    served.code = HTTP_CODE_OK => served.written = served.body

\* C13: readPICC goes on past the secret-key fetch (derives KeyB, reads data
\* blocks) only when the bridge's reply to the 35-byte request was a 6-byte
\* secret key relayed from an HTTP 200 answer.
C13_ProceedsOnlyOnSecretKey ==
    pc = "rd_block" =>
        /\ served.n = SecretKeyAuthDataSize
        /\ served.code = HTTP_CODE_OK
        /\ Len(served.written) = MF_KEY_SIZE

\* C14: networkConn ends with status OK exactly when 48 response bytes were
\* read and response bytes 40..47 equal DEVICE_ID, and then readData is the
\* response; otherwise the status is error and readData keeps the bytes read
\* from the tag.
C14_ResponseCheck ==
    [][ (pc = "net_wait" /\ pc' # "net_wait") =>
          LET resp == SubSeq(rx, 1, Len(rx) - Len(rx'))
          IN  IF Len(resp) = 48 /\ SubSeq(resp, 41, 48) = DEVICE_ID
                THEN /\ m_cardData'.status = STATUS_OK
                     /\ m_cardData'.readData = resp
                ELSE /\ m_cardData'.status = STATUS_ERROR
                     /\ m_cardData'.readData = m_cardData.readData
      ]_vars

C14_Witness ==
    /\ pc = "after_net" /\ cyc.netRan /\ m_cardData.status = STATUS_OK
    /\ m_cardData.readData = NewTrustKey \o TrustOrgId \o DEVICE_ID

\* C15: when no byte arrives in reply to the 67-byte request, networkConn
\* ends with error status and the text "Network connectivity failed!",
\* writePICC and setUidBasedKey are not executed, and the call returns to
\* StandBy after one cleanup (acknowledge, clear, PICC_HaltA and
\* PCD_StopCrypto1).
C15_SilentBridgeFailsCycle ==
    cyc.netSilent =>
        /\ m_cardData.status = STATUS_ERROR
        /\ m_detailsMsg = "Network connectivity failed!"
        /\ ~cyc.writeRan /\ cyc.dataWrites = 0 /\ ~cyc.upgradeRan
        /\ pc \in {"after_net", "after_write", "clean_ack", "clean_clear",
                   "clean_halt", "hdc_standby", "delay"}
        /\ cyc.returned => /\ cyc.halts = 1 /\ cyc.acks = 1 /\ cyc.clears = 1
                           /\ m_state = "StandBy"

C15_Witness ==
    cyc.netSilent /\ cyc.returned /\ cyc.halts = 1 /\ m_state = "StandBy"

\* C16: the key readPICC derives from a 6-byte secret key is, byte by byte,
\* secretKey xor KeyA xor U, where U is the first min(uid.size, 6) UID bytes
\* followed by zeros; no UID byte at index 6 or above enters it.
C16_KeyBIsThreeWayXor ==
    pc = "rd_block" =>
        LET Bit(x, k) == (x \div (2 ^ k)) % 2
            X(a, b, c, k) == ((Bit(a, k) + Bit(b, k) + Bit(c, k)) % 2) * (2 ^ k)
            Xor3(a, b, c) == X(a, b, c, 0) + X(a, b, c, 1) + X(a, b, c, 2) + X(a, b, c, 3)
                             + X(a, b, c, 4) + X(a, b, c, 5) + X(a, b, c, 6) + X(a, b, c, 7)
            U(i) == IF i <= uid.size /\ i <= 6 THEN uid.uidByte[i] ELSE 0
        IN  \A i \in 1..6 :
              m_PiccKeyB[i] = Xor3(served.written[i], KeyA[i], U(i))

C16_Witness ==
    /\ pc = "rd_block" /\ uid.size = 4 /\ uid.uidByte[5] # 0
    /\ m_PiccKeyB # served.written

\* C17: key mixing is self-inverse: mixing the same UID into the derived
\* KeyB again gives back the secret key the bridge relayed.
C17_KeyMixingSelfInverse ==
    pc = "rd_block" => setPICCAuthKeyB(m_PiccKeyB, uid) = served.written

C17_Witness ==
    /\ pc = "rd_block" /\ uid.size = 10
    /\ served.written = <<218, 0, 255, 164, 1, 66>>
    /\ m_PiccKeyB # served.written

\* C18: when authentication at a stride has failed and the reselect after it
\* has failed too, attemptBlock2Auth attempts no further stride for that key
\* and ends with error status.
C18_NoStrideAfterFailedReselect ==
    cyc.reselect # "ok" =>
        /\ cyc.reselect = "lost"
        /\ cyc.okStride = 0
        /\ m_blockAuth.status = STATUS_ERROR
        /\ ~cyc.keysTried[Len(cyc.keysTried)].ok

C18_Witness ==
    /\ cyc.reselect = "lost" /\ tag # NoTag
    /\ m_blockAuth.status = STATUS_ERROR /\ pc = "after_read"

\* C19: a call of attemptBlock2Auth ends with status OK exactly when a stride
\* b of 6, 10, ..., 62 authenticated with the key and was read; then
\* block0Addr = b - 2, a multiple of 4 in 4..60, block2Data is block b of the
\* tag, b is the first stride the key opens unless a fault made an earlier
\* one fail, and a key that opens a stride of a selected tag succeeds when
\* no fault occurs and no reselect fails; otherwise the status is error.
C19_Block2AuthResult ==
    [][ Len(cyc'.keysTried) = Len(cyc.keysTried) + 1 =>
          LET b == cyc'.okStride
              opened == IF tag = NoTag THEN {}
                        ELSE {b2 \in Tags[tag].blocks2 : SectorKeyA(b2) = key}
          IN  /\ (m_blockAuth'.status = STATUS_OK) <=> (b # 0)
              /\ (m_blockAuth'.status # STATUS_OK) => m_blockAuth'.status = STATUS_ERROR
              /\ b # 0 =>
                    /\ b \in {6 + 4 * i : i \in 0..14}
                    /\ b \in opened
                    /\ m_blockAuth'.block0Addr = b - 2
                    /\ m_blockAuth'.block0Addr % 4 = 0
                    /\ m_blockAuth'.block0Addr \in 4..60
                    /\ m_blockAuth'.block0Addr + 3 <= 63
                    /\ m_blockAuth'.block2Data = BlockAt(tag, mem, b)
                    /\ faults' = faults => \A b2 \in opened : b <= b2
              /\ (opened # {} /\ tagState = "ACTIVE" /\ faults' = faults
                    /\ cyc'.reselect = "ok") => b # 0
      ]_vars

C19_Witness ==
    /\ m_blockAuth.status = STATUS_OK /\ cyc.okStride = 14
    /\ m_blockAuth.block0Addr = 12 /\ m_blockAuth.block2Data = TagBlock(3, 14)

\* C20 (as claimed): readPICC tries Settings::KeyA first and, if that fails,
\* defaultPICCKeyAs[0..8] in index order, stopping at the first key that
\* succeeds; authKeyA is that key and isCardNew tells whether it differs
\* from Settings::KeyA; the trial fails only after every key has failed.
C20_KeyTrialOrder ==
    (pc # "auth" /\ cyc.keysTried # <<>>) =>
        LET t == cyc.keysTried
            n == Len(cyc.keysTried)
        IN  /\ \A i \in 1..n : t[i].k = i - 1 /\ (t[i].ok => i = n)
            /\ t[n].ok => /\ m_blockAuth.authKeyA = KeyBytes(t[n].k)
                          /\ m_blockAuth.isCardNew = (t[n].k # 0)
            /\ ~t[n].ok => n = keysCount + 1

\* C20 (amended): the same, the default keys being tried only in the
\* trust-organization build; in the standard build KeyA is the only key
\* tried.
C20_KeyTrialOrderPerMode ==
    (pc # "auth" /\ cyc.keysTried # <<>>) =>
        LET t == cyc.keysTried
            n == Len(cyc.keysTried)
        IN  /\ \A i \in 1..n : t[i].k = i - 1 /\ (t[i].ok => i = n)
            /\ t[n].ok => /\ m_blockAuth.authKeyA = KeyBytes(t[n].k)
                          /\ m_blockAuth.isCardNew = (t[n].k # 0)
            /\ ~t[n].ok => n = IF mode = "TrustIssuer" THEN keysCount + 1 ELSE 1
            /\ mode = "Standard" => n = 1

C20_Witness ==
    /\ mode = "TrustIssuer" /\ pc = "rd_pack" /\ Len(cyc.keysTried) = 3
    /\ m_blockAuth.authKeyA = defaultPICCKeyAs[2] /\ m_blockAuth.isCardNew

\* C21: within one cycle the data blocks writePICC writes are the blocks
\* readPICC read: block0Addr, block0Addr + 1 and block0Addr + 2 of the sector
\* authenticated in attemptBlock2Auth; no write goes to a sector trailer or
\* to another sector, and block0Addr is the same at the read and the write.
C21_WritesTheBlocksRead ==
    LET w == cyc.blocksWritten
        r == cyc.blocksRead
        b0 == m_blockAuth.block0Addr
    IN  /\ (r # <<>> \/ w # <<>>) => (cyc.authOK /\ b0 = cyc.okStride - 2)
        /\ Len(r) <= 3 /\ Len(w) <= 3
        /\ \A i \in 1..Len(r) : r[i].a = b0 + i - 1
        /\ \A i \in 1..Len(w) :
              /\ w[i].a = r[i].a
              /\ ~IsTrailer(w[i].a)
              /\ w[i].a \div sectorBlocks = cyc.okStride \div sectorBlocks
        /\ w # <<>> => Len(r) = 3
        /\ (pc = "after_write" /\ cyc.writeRan /\ m_cardData.status = STATUS_OK)
              => {w[i].a : i \in 1..Len(w)} = {r[i].a : i \in 1..Len(r)}

C21_Witness ==
    /\ pc = "after_write" /\ m_cardData.status = STATUS_OK
    /\ cyc.okStride = 62
    /\ {cyc.blocksWritten[i].a : i \in 1..Len(cyc.blocksWritten)} = {60, 61, 62}

\* C22: when the write stage succeeds, the i-th block written (i = 0, 1, 2)
\* holds bytes 16i..16i+15 of the 48 bytes the bridge answered to the
\* trust-key request; the payload of that request is the three blocks read,
\* concatenated in address order.
C22_PayloadWrittenVerbatim ==
    LET w == cyc.blocksWritten
        r == cyc.blocksRead
    IN  /\ (pc = "after_write" /\ cyc.writeRan /\ m_cardData.status = STATUS_OK) =>
              /\ Len(w) = 3
              /\ Len(served.written) = TrustKeySize
              /\ \A i \in 1..3 :
                    /\ w[i].d = SubSeq(served.written, blockSize * (i - 1) + 1, blockSize * i)
                    /\ tag # NoTag => mem[w[i].a] = w[i].d
              /\ w[1].a < w[2].a /\ w[2].a < w[3].a
        /\ pc = "net_wait" =>
              /\ Len(r) = 3
              /\ r[1].a < r[2].a /\ r[2].a < r[3].a
              /\ lastReq.payload = r[1].d \o r[2].d \o r[3].d
              /\ SubSeq(lastReq.bytes, PayloadOffset + 1, TrustKeyAuthDataSize)
                    = r[1].d \o r[2].d \o r[3].d

C22_Witness ==
    /\ pc = "after_write" /\ cyc.writeRan /\ m_cardData.status = STATUS_OK
    /\ tag # NoTag
    /\ cyc.blocksWritten[1].d # cyc.blocksWritten[3].d
    /\ cyc.blocksRead[1].d # cyc.blocksRead[2].d

\* C23: a sector trailer of the tag is written only by setUidBasedKey, at
\* block0Addr + 3, and only when the read, network and write stages of the
\* same cycle succeeded, the tag was found new (isCardNew) and the device
\* runs in TrustIssuer mode; no other step writes a trailer block.
C23_TrailerOnlyOnUpgrade ==
    [][ LET changed == {a \in DOMAIN mem' : a \notin DOMAIN mem \/ mem'[a] # mem[a]}
        IN  /\ pc # "upgrade" => \A a \in changed : ~IsTrailer(a)
            /\ \A i \in 1..Len(cyc'.blocksWritten) : ~IsTrailer(cyc'.blocksWritten[i].a)
            /\ (pc = "upgrade" /\ changed # {}) =>
                  /\ changed = {m_blockAuth.block0Addr + 3}
                  /\ \A a \in changed : IsTrailer(a)
                  /\ mode = "TrustIssuer"
                  /\ m_blockAuth.isCardNew
                  /\ cyc.readOK /\ cyc.netOK /\ cyc.writeRan
                  /\ Len(cyc.blocksWritten) = 3
                  /\ m_cardData.status = STATUS_OK
      ]_vars

C23_Witness ==
    /\ pc = "clean_ack" /\ cyc.upgradeRan /\ tag # NoTag
    /\ m_blockAuth.block0Addr + 3 \in DOMAIN mem
    /\ mem[m_blockAuth.block0Addr + 3] = KeyBuffer(m_PiccKeyB)
    /\ m_cardData.status = STATUS_OK

\* C24: a cycle whose read, network and write stages succeeded ends with
\* m_cardData.status OK whether the key upgrade succeeded, failed or was
\* skipped because the tag is not new.
C24_UpgradeDoesNotFailCycle ==
    (cyc.returned /\ cyc.readOK /\ cyc.netOK /\ Len(cyc.blocksWritten) = 3)
        => m_cardData.status = STATUS_OK

\* C25: the device state (the argument of setStatusMsg) changes only along
\* BootUp -> Loading -> StandBy, StandBy -> ReadTag, ReadTag -> Network,
\* Network -> WriteTag and ReadTag / Network / WriteTag -> StandBy; so BootUp
\* and Loading do not recur after StandBy, and Network and WriteTag are not
\* entered from StandBy.
C25_StateSequence ==
    [][ m_state' # m_state =>
          <<m_state, m_state'>> \in
              { <<"BootUp", "Loading">>, <<"Loading", "StandBy">>,
                <<"StandBy", "ReadTag">>, <<"ReadTag", "Network">>,
                <<"Network", "WriteTag">>, <<"ReadTag", "StandBy">>,
                <<"Network", "StandBy">>, <<"WriteTag", "StandBy">> }
      ]_vars

C25_Witness ==
    /\ m_state = "StandBy" /\ cyc.returned /\ cyc.writeRan /\ cycles = 2

C28_MostRecentRowWins ==
    [][ LET h == HashedTagUid(bin_input')
            old_trustkey == bin2hex(SubSeq(bin_input', 20, 51))
            old_block2data == md5hash(bin2hex(SubSeq(bin_input', 52, 67)))
            ofTag == {m \in 1..Len(rollingPasswordTable) :
                         rollingPasswordTable[m].secret_key_id \in SecretKeyIds(h)}
            newest == CHOOSE m \in ofTag : \A n \in ofTag : n <= m
        IN  Len(bin_input') = TrustKeyAuthDataSize =>
              \/ ofTag # {} /\ Matches(newest, h, old_block2data, old_trustkey)
              \/ /\ bin_response' = MalformedReply \o <<54>>
                 /\ rollingPasswordTable' = rollingPasswordTable
      ]_vars

\* C29: rollingPasswordTable only grows, by one row at a time and leaving the
\* rows it has as they are; a trust-key validation answered with a new
\* credential appended exactly one row, the one holding the credential
\* returned, and one answered with the error string appended none.
C29_TableAppendOnly ==
    [][ LET n == Len(rollingPasswordTable) IN
        /\ Len(rollingPasswordTable') \in {n, n + 1}
        /\ SubSeq(rollingPasswordTable', 1, n) = rollingPasswordTable
        /\ bin_input' = <<>> => rollingPasswordTable' = rollingPasswordTable
        /\ Len(bin_input') = TrustKeyAuthDataSize =>
              IF bin_response' = MalformedReply \o <<54>>
                THEN rollingPasswordTable' = rollingPasswordTable
                ELSE /\ Len(rollingPasswordTable') = n + 1
                     /\ bin_response' =
                            hex2bin(rollingPasswordTable'[n + 1].rolling_pass)
                                \o TrustOrgId \o hex2bin(PcdUid(bin_input'))
      ]_vars

C29_Witness ==
    /\ Len(rollingPasswordTable) = 3 /\ Len(bin_input) = TrustKeyAuthDataSize
    /\ bin_response = hex2bin(rollingPasswordTable[3].rolling_pass) \o TrustOrgId \o DEVICE_ID
    /\ rollingPasswordTable[3].secret_key_id = rollingPasswordTable[2].secret_key_id

\* C30: once a call of handleDetectedCard that selected a tag has run
\* cleanUpAfterCardOps and returned, the device holds nothing of the cycle:
\* the 48 bytes of m_cardData.readData, the key and the block-2 data of
\* m_blockAuth and the key B of m_PiccKeyB are all zero again.
C30_CycleStateReset ==
    (cyc.returned /\ cyc.selected /\ cyc.halts > 0) =>
        /\ m_cardData.readData = Fill(TrustKeySize, 0)
        /\ m_blockAuth.authKeyA = Fill(MF_KEY_SIZE, 0)
        /\ m_blockAuth.block2Data = Fill(blockSize, 0)
        /\ m_PiccKeyB = Fill(MF_KEY_SIZE, 0)

C33_HandshakeCompletes ==
    (bpc = "ack_wait" /\ pc \in {"hs_write", "hs_read"}) ~> (pc \notin {"hs_write", "hs_read"})
\* C34: the bridge writes READY only from its ACK wait loop, which it enters
\* only with the station-mode connection established, and only in a step in
\* which it has read an ACK token from the link; once READY is written it
\* never returns to the wait loop (READY is written at most once per boot);
\* in the configuration server loop it stays there and never writes READY.
C34_ReadyOnceAfterConnectAndAck ==
    /\ [](readySent => bpc \in {"drain", "serve"})
    /\ [][ (~readySent /\ readySent') =>
              /\ bpc = "ack_wait"
              /\ Len(tx) - Len(tx') >= Len(ACK_SIGNAL)
              /\ Take(tx, Len(ACK_SIGNAL)) = ACK_SIGNAL ]_vars
    /\ [][ readySent => (readySent' /\ bpc' \notin {"boot", "ack_wait"}) ]_vars
    /\ [][ bpc = "config_server" => (bpc' = "config_server" /\ ~readySent') ]_vars
\* C35: whenever activateTransmission performs its register writes (the
\* REQA command), onInterrupt is not set.
C35_NoReqaWhileFlagSet ==
    [][ (pc = "act_write" /\ pc' = "delay") => ~onInterrupt ]_vars
\* C36: when the POST handler has processed a body whose device ID (bytes
\* 11..18) is not a device_id of devicesTable, the response is 'Hacking
\* Attempt!' and neither table has changed: no secret key was returned or
\* created and no rolling-credential row was appended.
C36_UnregisteredDeviceRejected ==
    [][ (Len(bin_input') >= 19 /\ PcdUid(bin_input') \notin {d.device_id : d \in devicesTable}) =>
            /\ bin_response' = HackingAttempt
            /\ UNCHANGED <<secretKeysTable, rollingPasswordTable>> ]_vars
\* C37: bytes 11..18 of the 35-byte request the device has written are
\* DEVICE_ID in TrustIssuer mode and eight zero bytes in Standard mode;
\* bytes 11..18 of the 67-byte request are DEVICE_ID in both modes; and a
\* trust-key response the device has accepted carries DEVICE_ID at offsets
\* 40..47.
C37_DeviceIdField ==
    /\ pc = "rd_wait" =>
          /\ Len(lastReq.bytes) = SecretKeyAuthDataSize
          /\ SubSeq(lastReq.bytes, 12, 19) =
                IF mode = "TrustIssuer" THEN DEVICE_ID ELSE <<0, 0, 0, 0, 0, 0, 0, 0>>
    /\ pc = "net_wait" =>
          /\ Len(lastReq.bytes) = TrustKeyAuthDataSize
          /\ SubSeq(lastReq.bytes, 12, 19) = DEVICE_ID
    /\ cyc.netOK => SubSeq(m_cardData.readData, 41, 48) = DEVICE_ID

C37_Witness ==
    /\ mode = "Standard" /\ cyc.netOK /\ cyc.reqs35 = 1 /\ cyc.reqs67 = 1
    /\ SubSeq(m_cardData.readData, 41, 48) = DEVICE_ID
\* C38: while the device waits for the answer to a request it has written,
\* its receive buffer holds nothing but what the bridge has written in
\* answer to that request; the secret key KeyB is derived from and the
\* trust-key payload accepted are the leading bytes of that answer, never
\* bytes that were pending when the request was written.
C38_ResponseAfterDrain ==
    /\ [](pc \in {"rd_wait", "net_wait"} =>
             rx = IF served = NoServe THEN <<>> ELSE served.written)
    /\ [][ (pc = "rd_wait" /\ pc' = "rd_block") =>
              m_PiccKeyB' = setPICCAuthKeyB(Take(served.written, MF_KEY_SIZE), uid) ]_vars
    /\ [][ (pc = "net_wait" /\ m_cardData' # m_cardData) =>
              m_cardData'.readData = Take(served.written, TrustKeySize) ]_vars

C38_Witness ==
    /\ cyc.netOK /\ served.n = TrustKeyAuthDataSize
    /\ m_cardData.readData = served.written
    /\ m_PiccKeyB = setPICCAuthKeyB(Take(MalformedReply, MF_KEY_SIZE), uid)
\* C39: after a trust-key request that the backend answered with a new
\* credential, the response is 48 bytes (the rolling_pass of the row just
\* appended, the trust organisation's ID, the requesting device's ID at
\* offsets 40..47); the device accepts what the bridge relays of it; and the
\* request the device builds for the same tag from those 48 bytes matches
\* the appended row in the backend's trust-key query.
C39_CredentialRoundTrip ==
    (Len(bin_input) = TrustKeyAuthDataSize /\ bin_response # MalformedReply \o <<54>>) =>
        LET n == Len(rollingPasswordTable)
            relayed == SerialWritten(HTTP_CODE_OK, bin_response)
            bytesRead == Min(TrustKeySize, Len(relayed))
            txData == MemCpy(bin_input, relayed, bytesRead)
            u == [size |-> bin_input[1], uidByte |-> SubSeq(bin_input, 2, 1 + UidBufSize)]
            next == TrustKeyFrame(u, SubSeq(txData, 1, TrustKeySize))
        IN  /\ Len(bin_response) = TrustKeySize
            /\ SubSeq(bin_response, 1, 32) = hex2bin(rollingPasswordTable[n].rolling_pass)
            /\ SubSeq(bin_response, 33, 40) = TrustOrgId
            /\ SubSeq(bin_response, 41, 48) = hex2bin(PcdUid(bin_input))
            /\ ResponseOK(txData, bytesRead)
            /\ Matches(n, HashedTagUid(next), md5hash(bin2hex(SubSeq(next, 52, 67))),
                       bin2hex(SubSeq(next, 20, 51)))
====
